---- MODULE Spec2Model ----
(***************************************************************************)
(* A model of the Loki source-to-source front end: the lowering of the     *)
(* fparser parse tree to the IR (loki/frontend/fparser.py, FParser2IR),    *)
(* the symbol tables it updates, and the expression-to-text mappers of the *)
(* backends (loki/backend/maxgen.py).                                      *)
(*                                                                         *)
(* A parse-tree node is a record [k, s, ch]: its fparser class k, its      *)
(* string payload s (a name, a literal, an operator token) and its node    *)
(* children ch.  An IR or expression node is a record [k, n, ch]: its      *)
(* class k, its name or value n and its children ch.  A text is a sequence *)
(* of tokens.  A raised exception is the node Raise(name).                 *)
(***************************************************************************)
EXTENDS Integers, Sequences, FiniteSets, TLC

VARIABLES
    strict,     \* config['frontend-strict-mode']
    ast,        \* the parse tree handed to FParser2IR.visit
    symbols,    \* scope id -> (name -> SymbolAttributes), the tables of all scopes
    parents,    \* scope id -> id of the parent scope (NoScope at the root)
    scope,      \* id of the scope handed to parse_fparser_ast
    definitions,\* module name -> the module's symbol table, for the modules known
    ir,         \* what the lowering returned
    exc,        \* the exception that ended the lowering, or NoExc
    warnings,   \* number of messages logged through warning()
    text,       \* the tokens the backend emitted for ir
    pc,         \* "parsed" -> "lowered" | "failed" -> "printed"
    retrieved,  \* ExpressionRetriever.exprs, the matches of a tree search
    stack,      \* the calls of GenericRule.check still to be made, next first
    calls,      \* the calls made to check_file, check_module, check_subroutine
    depth,      \* the indentation depth of the emitter of a backend
    self        \* the fields of the SCCAnnotateTransformation instance

vars == <<strict, ast, symbols, parents, scope, definitions, ir, exc, warnings, text, pc,
          retrieved, stack, calls, depth, self>>

(***************************************************************************)
(* Bounds of the model.                                                    *)
(***************************************************************************)
MaxArithOps == 2      \* operator nodes of an arithmetic parse tree
MaxParenOps == 2      \* operator nodes of a mixed-kind parse tree
MaxSubscripts == 1    \* subscripts of a part-ref
MaxFields == 2        \* components of a derived-type definition
MaxBranches == 2      \* conditions of an IF construct, cases of a SELECT CASE
MaxBody == 1          \* statements of a branch body

(***************************************************************************)
(* Nodes.                                                                  *)
(***************************************************************************)
NoExc == "none"

\* No transformation has been constructed
NoInstance == [directive |-> "None", hoist_column_arrays |-> FALSE, _processed |-> {}]
NoScope == 0
None == [k |-> "None", n |-> "", ch |-> <<>>]

PNode(k, s, ch) == [k |-> k, s |-> s, ch |-> ch]
Leaf(k, s) == PNode(k, s, <<>>)
Expr(k, n, ch) == [k |-> k, n |-> n, ch |-> ch]
Raise(e) == Expr("Raise", e, <<>>)
IsRaise(e) == e.k = "Raise"

\* The first raised exception among the results rs (evaluation order), or None.
RECURSIVE FirstRaise(_)
FirstRaise(rs) ==
    IF rs = <<>> THEN None
    ELSE IF IsRaise(Head(rs)) THEN Head(rs) ELSE FirstRaise(Tail(rs))

\* Children of a parse-tree node that are None or a plain str in fparser.
PyNone == Leaf("None", "")
Str(s) == Leaf("str", s)

\* A Python str returned by a handler.
StrVal(s) == Expr("str", s, <<>>)

\* A Python tuple of lowered nodes.
Tuple(items) == Expr("tuple", "", items)
IsTuple(e) == e.k = "tuple"

\* fparser's text of a parse-tree node (o.tostr()), as tokens: a statement
\* leaf holds its text, an operation its operator between its operands.
RECURSIVE tostr(_)
tostr(o) ==
    IF o.k = "Parenthesis" THEN <<"(">> \o tostr(o.ch[1]) \o <<")">>
    ELSE IF Len(o.ch) = 2 THEN tostr(o.ch[1]) \o <<o.s>> \o tostr(o.ch[2])
    ELSE IF Len(o.ch) = 1 THEN <<o.s>> \o tostr(o.ch[1])
    ELSE <<o.s>>

\* A text held by an IR node, token by token.
Text(tokens) == [i \in DOMAIN tokens |-> Expr("tok", tokens[i], <<>>)]

\* Python's -1, as written in create_operation.
MinusOne == Expr("int", "-1", <<>>)

(***************************************************************************)
(* Expression algebra: FParser2IR.create_operation and the expression      *)
(* handlers of the lowering engine.                                        *)
(***************************************************************************)

\* The token as it is written.
lower_as_written(op) == op

\* str.lower() on the operator tokens and keywords of the model.
lower(op) ==
    CASE op \in {".AND.", ".And."} -> ".and."
      [] op = ".OR." -> ".or."
      [] op = ".NOT." -> ".not."
      [] op \in {".EQV.", ".Eqv."} -> ".eqv."
      [] op \in {".NEQV.", ".Neqv."} -> ".neqv."
      [] op = ".EQ." -> ".eq."
      [] op = ".NE." -> ".ne."
      [] op = ".GT." -> ".gt."
      [] op = ".LT." -> ".lt."
      [] op = ".GE." -> ".ge."
      [] op = ".LE." -> ".le."
      [] op = ".XOR." -> ".xor."
      [] op = "EXTERNAL" -> "external"
      [] op = "PARAMETER" -> "parameter"
      [] op = "DIMENSION" -> "dimension"
      [] op = "INTENT" -> "intent"
      [] op = "IN" -> "in"
      [] op = "OUT" -> "out"
      [] op = "INOUT" -> "inout"
      [] op = "SOURCE" -> "source"
      [] op = "STAT" -> "stat"
      [] op = "NODEP" -> "nodep"
      [] op = "DATA" -> "data"
      [] OTHER -> op

\* exprs[i] of a Python tuple: IndexError past its end.
Item(exprs, i) == IF i <= Len(exprs) THEN exprs[i] ELSE Raise("IndexError")

\* A node built from operands taken with Item: the IndexError of a missing one.
Build(k, n, ch) == IF IsRaise(FirstRaise(ch)) THEN FirstRaise(ch) ELSE Expr(k, n, ch)

\* create_operation with the -1 placed after the operand it negates.
create_operation_trailing_minus(op, exprs) ==
    IF op = "*" THEN Expr("Product", "", exprs)
    ELSE IF op = "+" THEN Expr("Sum", "", exprs)
    ELSE IF op = "-" THEN
        IF Len(exprs) > 1
        THEN Expr("Sum", "", <<exprs[1], Expr("Product", "", <<exprs[2], MinusOne>>)>>)
        ELSE Build("Product", "", <<Item(exprs, 1), MinusOne>>)
    ELSE Raise("RuntimeError")

create_operation(op, exprs) ==
    IF op = "*" THEN Expr("Product", "", exprs)
    ELSE IF op = "/" THEN Build("Quotient", "", <<Item(exprs, 1), Item(exprs, 2)>>)
    ELSE IF op = "+" THEN Expr("Sum", "", exprs)
    ELSE IF op = "-" THEN
        IF Len(exprs) > 1
        THEN Expr("Sum", "", <<exprs[1], Expr("Product", "", <<MinusOne, exprs[2]>>)>>)
        ELSE Build("Product", "", <<MinusOne, Item(exprs, 1)>>)
    ELSE IF op = "**" THEN Build("Power", "", <<Item(exprs, 1), Item(exprs, 2)>>)
    ELSE IF lower(op) = ".and." THEN Expr("LogicalAnd", "", exprs)
    ELSE IF lower(op) = ".or." THEN Expr("LogicalOr", "", exprs)
    ELSE IF lower(op) \in {"==", ".eq."}
        THEN Build("Comparison", "==", <<Item(exprs, 1), Item(exprs, 2)>>)
    ELSE IF lower(op) \in {"/=", ".ne."}
        THEN Build("Comparison", "!=", <<Item(exprs, 1), Item(exprs, 2)>>)
    ELSE IF lower(op) \in {">", ".gt."}
        THEN Build("Comparison", ">", <<Item(exprs, 1), Item(exprs, 2)>>)
    ELSE IF lower(op) \in {"<", ".lt."}
        THEN Build("Comparison", "<", <<Item(exprs, 1), Item(exprs, 2)>>)
    ELSE IF lower(op) \in {">=", ".ge."}
        THEN Build("Comparison", ">=", <<Item(exprs, 1), Item(exprs, 2)>>)
    ELSE IF lower(op) \in {"<=", ".le."}
        THEN Build("Comparison", "<=", <<Item(exprs, 1), Item(exprs, 2)>>)
    ELSE IF lower(op) = ".not." THEN Build("LogicalNot", "", <<Item(exprs, 1)>>)
    ELSE IF lower(op) = ".eqv." THEN
        Expr("LogicalOr", "", <<Expr("LogicalAnd", "", exprs),
                                Expr("LogicalNot", "", <<Expr("LogicalOr", "", exprs)>>)>>)
    ELSE IF lower(op) = ".neqv." THEN
        Expr("LogicalAnd", "", <<Expr("LogicalNot", "", <<Expr("LogicalAnd", "", exprs)>>),
                                 Expr("LogicalOr", "", exprs)>>)
    ELSE IF op = "//" THEN Expr("StringConcat", "", exprs)
    ELSE Raise("RuntimeError")

\* isinstance(e, cls) for the expression classes: the Parenthesised* variants
\* derive from the plain operation classes.
IsInstance(e, cls) ==
    \/ e.k = cls
    \/ cls = "Sum" /\ e.k = "ParenthesisedAdd"
    \/ cls = "Product" /\ e.k = "ParenthesisedMul"
    \/ cls = "Power" /\ e.k = "ParenthesisedPow"

visit_Name(o) == Expr("Variable", o.s, <<>>)

\* visit_Int_Literal_Constant -> visit_literal -> sym.Literal(value, type=INTEGER)
visit_Int_Literal_Constant(o) == Expr("IntLiteral", o.s, <<>>)

RECURSIVE visit(_, _)

\* o.items is (lhs, op, rhs) for a binary operand and (op, rhs) for a unary one:
\* o.ch holds the operand nodes and o.s the operator.
visit_Add_Operand(o, sc) ==
    IF Len(o.ch) + 1 > 2
    THEN LET e1 == visit(o.ch[1], sc)
             e2 == visit(o.ch[2], sc)
         IN  IF IsRaise(e1) THEN e1
             ELSE IF IsRaise(e2) THEN e2
             ELSE create_operation(o.s, <<e1, e2>>)
    ELSE LET e == visit(o.ch[1], sc)
         IN  IF IsRaise(e) THEN e ELSE create_operation(o.s, <<e>>)

visit_Level_2_Expr(o, sc) ==
    LET e1 == visit(o.ch[1], sc)
        e2 == visit(o.ch[2], sc)
    IN  IF IsRaise(e1) THEN e1
        ELSE IF IsRaise(e2) THEN e2
        ELSE create_operation(o.s, <<e1, e2>>)

visit_Level_2_Unary_Expr(o, sc) ==
    LET e == visit(o.ch[1], sc)
    IN  IF IsRaise(e) THEN e ELSE create_operation(o.s, <<e>>)

visit_Parenthesis(o, sc) ==
    LET expression == visit(o.ch[1], sc)
        e1 == IF IsInstance(expression, "Sum")
              THEN Expr("ParenthesisedAdd", "", expression.ch) ELSE expression
        e2 == IF IsInstance(e1, "Product")
              THEN Expr("ParenthesisedMul", "", e1.ch) ELSE e1
        e3 == IF IsInstance(e2, "Power")
              THEN Expr("ParenthesisedPow", "", e2.ch) ELSE e2
    IN  IF IsRaise(expression) THEN expression ELSE e3

(***************************************************************************)
(* Scopes and symbol tables.  A table maps every name to its               *)
(* SymbolAttributes, Unbound standing for a name without an entry.  A      *)
(* scope object is the record [id, symbols, parents]: the scope's id and   *)
(* the tables and parent links it reaches.                                 *)
(***************************************************************************)
Names == {"foo", "bar", "baz", "t"}

\* SymbolAttributes(dtype): the attributes not given are unset (None, "", {}).
\* name and is_function belong to a ProcedureType or DerivedType dtype, typedef
\* to a DerivedType; flags holds the attributes set to True.
SymbolAttributes(dtype) ==
    [k |-> "SymbolAttributes", dtype |-> dtype, name |-> "", is_function |-> FALSE,
     typedef |-> None, shape |-> None, dimension |-> None, intent |-> "",
     flags |-> {}, kind |-> None, length |-> None, return_type |-> "",
     initial |-> None, module |-> ""]
Unbound == SymbolAttributes("unbound")
ProcedureType(name, is_function) ==
    [SymbolAttributes("PROCEDURE") EXCEPT !.name = name, !.is_function = is_function]
DerivedType(name, typedef) ==
    [SymbolAttributes("DERIVED") EXCEPT !.name = name, !.typedef = typedef]

EmptyTable == [n \in Names |-> Unbound]

\* The modules a USE statement may name, and self.definitions when none of
\* them is known.
ModuleNames == {"m"}
NoModule == [known |-> FALSE, symbols |-> EmptyTable]
NoDefinitions == [m \in ModuleNames |-> NoModule]

ScopeOf(id, env) == [id |-> id, symbols |-> env.symbols, parents |-> env.parents]

\* SymbolTable.lookup(name): the scope's own entry, else the parent's, else None
\* (Unbound).
RECURSIVE lookup_in(_, _, _, _)
lookup_in(tabs, pars, id, name) ==
    IF id = NoScope THEN Unbound
    ELSE IF tabs[id][name] # Unbound THEN tabs[id][name]
    ELSE lookup_in(tabs, pars, pars[id], name)

lookup(sc, name) == lookup_in(sc.symbols, sc.parents, sc.id, name)

\* Variable.clone(dimensions=...): a name with subscripts is an Array, a name
\* without is a plain Variable.
clone_dimensions(var, dimensions) ==
    IF IsTuple(dimensions) /\ Len(dimensions.ch) > 0
    THEN Expr("Array", var.n, dimensions.ch)
    ELSE Expr("Variable", var.n, <<>>)

\* visit_Part_Ref that tells a call by the subscript list alone.
visit_Part_Ref_syntactic(o, sc) ==
    LET name == visit(o.ch[1], sc)
        dimensions == visit(o.ch[2], sc)
    IN  IF IsRaise(dimensions) THEN dimensions
        ELSE IF Len(dimensions.ch) > 0
             THEN Expr("InlineCall", "", <<clone_dimensions(name, None), dimensions, Tuple(<<>>)>>)
             ELSE name

visit_Part_Ref(o, sc) ==
    LET name == visit(o.ch[1], sc)
        dimensions == visit(o.ch[2], sc)
        named == IF Len(dimensions.ch) > 0 THEN clone_dimensions(name, dimensions) ELSE name
        _type == lookup(sc, name.n)
    IN  IF IsRaise(dimensions) THEN dimensions
        ELSE IF _type # Unbound /\ _type.dtype = "PROCEDURE"
             THEN Expr("InlineCall", "", <<clone_dimensions(named, None), dimensions, Tuple(<<>>)>>)
             ELSE named

\* var.clone(name='{}%{}'.format(parent.name, var.name), parent=parent): the
\* other attributes of var, its dimensions among them, are kept.
clone_parent_unqualified(var, parent) ==
    [k |-> var.k, n |-> var.n, ch |-> var.ch, parent |-> parent]

clone_parent(var, parent) ==
    [k |-> var.k, n |-> parent.n \o "%" \o var.n, ch |-> var.ch, parent |-> parent]

\* The loop of visit_Data_Ref over o.children[1:], var being the result for
\* the parts before children[i].
RECURSIVE data_ref_parts(_, _, _, _)
data_ref_parts(children, i, var, sc) ==
    IF IsRaise(var) \/ i > Len(children) THEN var
    ELSE IF IsRaise(visit(children[i], sc)) THEN visit(children[i], sc)
    ELSE data_ref_parts(children, i + 1, clone_parent(visit(children[i], sc), var), sc)

\* o.ch = the parts of part-ref % part-ref ...
visit_Data_Ref(o, sc) == data_ref_parts(o.ch, 2, visit(o.ch[1], sc), sc)

\* visit_List: the tuple of the lowered children (the first exception raised
\* among them, if any).
visit_List(o, sc) ==
    LET rs == [i \in DOMAIN o.ch |-> visit(o.ch[i], sc)]
    IN  IF IsRaise(FirstRaise(rs)) THEN FirstRaise(rs) ELSE Tuple(rs)

\* o.ch = <<lower bound or None, upper bound or None>>
visit_Explicit_Shape_Spec(o, sc) ==
    LET upper_bound == IF o.ch[2] # PyNone THEN visit(o.ch[2], sc) ELSE None
        lower_bound == IF o.ch[1] # PyNone THEN visit(o.ch[1], sc) ELSE None
    IN  IF IsRaise(upper_bound) THEN upper_bound
        ELSE IF IsRaise(lower_bound) THEN lower_bound
        ELSE IF upper_bound # None /\ lower_bound = None THEN upper_bound
        ELSE Expr("RangeIndex", "", <<lower_bound, upper_bound>>)

\* o.ch = <<Case_Value_Range_List or None>>
visit_Case_Selector(o, sc) ==
    IF o.ch[1] = PyNone THEN StrVal("DEFAULT") ELSE visit(o.ch[1], sc)

\* o.ch = <<the new name, '=>', the selector>>: (selector, associate_name)
visit_Association(o, sc) ==
    IF o.ch[2] # Str("=>") THEN Raise("AssertionError")
    ELSE Build("tuple", "", <<visit(o.ch[3], sc), visit(o.ch[1], sc)>>)

\* o.ch = <<'ASSOCIATE', Association_List>>
visit_Associate_Stmt(o, sc) ==
    IF o.ch[1] \notin {Str("ASSOCIATE"), Str("associate")} THEN Raise("AssertionError")
    ELSE visit(o.ch[2], sc)

\* o.ch = <<None, 'ABSTRACT' or a Generic_Spec>>
visit_Interface_Stmt(o, sc) ==
    IF o.ch[1] = PyNone THEN None
    ELSE IF o.ch[1] = Str("ABSTRACT") THEN StrVal("ABSTRACT")
    ELSE StrVal(o.ch[1].s)

\* o.ch = <<the object allocated, Allocate_Shape_Spec_List>>: the object with
\* the shape as its dimensions.
visit_Allocation(o, sc) ==
    IF IsRaise(visit(o.ch[2], sc)) THEN visit(o.ch[2], sc)
    ELSE clone_dimensions(visit(o.ch[1], sc), visit(o.ch[2], sc))

\* o.ch = <<'=' or '=>', the init expression>>
visit_Initialization(o, sc) ==
    IF o.ch[1] \in {Str("="), Str("=>")} THEN visit(o.ch[2], sc) ELSE Raise("ValueError")

\* The classes lowered by the expression handlers.
ExpressionClasses ==
    {"Name", "Int_Literal_Constant", "Add_Operand", "Mult_Operand", "And_Operand",
     "Or_Operand", "Equiv_Operand", "Level_2_Expr", "Level_3_Expr", "Level_4_Expr",
     "Level_5_Expr", "Level_2_Unary_Expr", "Parenthesis", "Part_Ref", "Data_Ref",
     "Section_Subscript_List", "Explicit_Shape_Spec_List", "Case_Value_Range_List",
     "Association_List", "Only_List", "Allocation_List", "Allocate_Shape_Spec_List",
     "Dummy_Arg_List", "Explicit_Shape_Spec", "Allocate_Shape_Spec",
     "Case_Selector", "Association", "Associate_Stmt", "Interface_Stmt", "Allocation",
     "Initialization", "External_Name_List"}

\* GenericVisitor dispatch on the class of the parse-tree node.
visit(o, sc) ==
    CASE o.k = "Name" -> visit_Name(o)
      [] o.k = "Int_Literal_Constant" -> visit_Int_Literal_Constant(o)
      [] o.k \in {"Add_Operand", "Mult_Operand", "And_Operand", "Or_Operand",
                  "Equiv_Operand"} -> visit_Add_Operand(o, sc)
      [] o.k \in {"Level_2_Expr", "Level_3_Expr", "Level_4_Expr", "Level_5_Expr"}
            -> visit_Level_2_Expr(o, sc)
      [] o.k = "Level_2_Unary_Expr" -> visit_Level_2_Unary_Expr(o, sc)
      [] o.k = "Parenthesis" -> visit_Parenthesis(o, sc)
      [] o.k = "Part_Ref" -> visit_Part_Ref(o, sc)
      [] o.k = "Data_Ref" -> visit_Data_Ref(o, sc)
      [] o.k \in {"Section_Subscript_List", "Explicit_Shape_Spec_List",
                  "Case_Value_Range_List", "Association_List", "Only_List",
                  "Allocation_List", "Allocate_Shape_Spec_List", "Dummy_Arg_List",
                  "External_Name_List"}
            -> visit_List(o, sc)
      [] o.k = "Allocation" -> visit_Allocation(o, sc)
      [] o.k = "Initialization" -> visit_Initialization(o, sc)
      [] o.k = "Case_Selector" -> visit_Case_Selector(o, sc)
      [] o.k = "Association" -> visit_Association(o, sc)
      [] o.k = "Associate_Stmt" -> visit_Associate_Stmt(o, sc)
      [] o.k = "Interface_Stmt" -> visit_Interface_Stmt(o, sc)
      [] o.k \in {"Explicit_Shape_Spec", "Allocate_Shape_Spec"}
            -> visit_Explicit_Shape_Spec(o, sc)
      [] OTHER -> None

(***************************************************************************)
(* Statements and constructs.  A handler takes the node o, the id sc of    *)
(* the active scope and the environment env = [r, symbols, parents,        *)
(* warnings], and returns the environment it leaves behind, r holding what *)
(* it returned or the exception it raised.                                 *)
(***************************************************************************)
Return(r, env) == [env EXCEPT !.r = r]
Failed(res) == IsRaise(res.r)

\* FParser2IR.warn_or_fail
warn_or_fail(env) ==
    IF strict THEN Return(Raise("NotImplementedError"), env)
    ELSE [env EXCEPT !.warnings = @ + 1, !.r = None]

\* An assert statement.
assert_stmt(cond, env) == IF cond THEN Return(None, env) ELSE Return(Raise("AssertionError"), env)

\* get_child(o, cls) and o.children.index(child): the position of the first
\* child of class cls, 0 when there is none.
RECURSIVE index(_, _, _)
index(children, cls, i) ==
    IF i > Len(children) THEN 0
    ELSE IF children[i].k = cls THEN i ELSE index(children, cls, i + 1)

get_child(o, cls) == index(o.ch, cls, 1)

\* children[a:b] of a Python sequence, with 1-based inclusive positions.
Slice(children, a, b) == IF a > b THEN <<>> ELSE SubSeq(children, a, b)

\* loki.tools.flatten followed by as_tuple: nested tuples are spliced in.
RECURSIVE flatten(_)
flatten(items) ==
    IF items = <<>> THEN <<>>
    ELSE IF IsTuple(Head(items)) THEN flatten(Head(items).ch) \o flatten(Tail(items))
    ELSE <<Head(items)>> \o flatten(Tail(items))

RECURSIVE visit_stmt(_, _, _)

\* The rest K of a handler after a step that left res: skipped when the step
\* raised.
Then(res, K(_)) == IF Failed(res) THEN res ELSE K(res)

\* tuple(self.visit(c, **kwargs) for c in children)
RECURSIVE visit_each(_, _, _)
visit_each(children, sc, env) ==
    IF children = <<>> THEN Return(Tuple(<<>>), env)
    ELSE Then(visit_stmt(Head(children), sc, env), LAMBDA h :
         Then(visit_each(Tail(children), sc, h), LAMBDA t :
         Return(Tuple(<<h.r>> \o t.r.ch), t)))

\* scope.symbols[name] = attrs
SetSymbol(env, sc, name, attrs) == [env EXCEPT !.symbols[sc][name] = attrs]

\* Scope(parent=parent_scope): the new scope is the last of env.symbols.
NewScope(env, parent_scope) ==
    [env EXCEPT !.symbols = Append(@, EmptyTable), !.parents = Append(@, parent_scope)]

\* The reference to a scope held by an IR node.
ScopeRef(id) == Expr("Scope", ToString(id), <<>>)

\* _type.clone(**other.__dict__): the attributes set on other override _type's.
clone_with(_type, other) ==
    [k |-> "SymbolAttributes",
     dtype |-> other.dtype,
     name |-> other.name,
     is_function |-> other.is_function,
     typedef |-> other.typedef,
     shape |-> IF other.shape # None THEN other.shape ELSE _type.shape,
     dimension |-> IF other.dimension # None THEN other.dimension ELSE _type.dimension,
     intent |-> IF other.intent # "" THEN other.intent ELSE _type.intent,
     flags |-> _type.flags \cup other.flags,
     kind |-> IF other.kind # None THEN other.kind ELSE _type.kind,
     length |-> IF other.length # None THEN other.length ELSE _type.length,
     return_type |-> IF other.return_type # "" THEN other.return_type ELSE _type.return_type,
     initial |-> IF other.initial # None THEN other.initial ELSE _type.initial,
     module |-> IF other.module # "" THEN other.module ELSE _type.module]

visit_Comment(o, sc, env) == Return(Expr("Comment", o.s, <<>>), env)

\* o.ch = <<'(', Scalar_Int_Initialization_Expr, ')'>>
visit_Kind_Selector(o, sc, env) ==
    Then(assert_stmt(o.ch[1] = Str("(") /\ o.ch[3] = Str(")"), env), LAMBDA a :
    Return(visit(o.ch[2], ScopeOf(sc, a)), a))

\* o.ch = <<'(' or '*', Char_Length, ')' or None>>
visit_Length_Selector(o, sc, env) ==
    Then(IF o.ch[1] = Str("*") THEN warn_or_fail(env) ELSE env, LAMBDA w :
    Then(assert_stmt(o.ch[1] = Str("(") /\ o.ch[3] = Str(")"), w), LAMBDA a :
    Return(visit(o.ch[2], ScopeOf(sc, a)), a)))

\* o.s is the type name, o.ch = <<kind or length selector, or None>>
visit_Intrinsic_Type_Spec(o, sc, env) ==
    IF o.ch[1] # PyNone
    THEN Then(visit_stmt(o.ch[1], sc, env), LAMBDA sel :
         IF o.s \in {"INTEGER", "REAL", "COMPLEX", "LOGICAL"}
         THEN Return([SymbolAttributes(o.s) EXCEPT !.kind = sel.r], sel)
         ELSE IF o.s = "CHARACTER"
         THEN Return([SymbolAttributes(o.s) EXCEPT !.length = sel.r], sel)
         ELSE Return(Raise("ValueError"), sel))
    ELSE Return(SymbolAttributes(o.s), env)

\* A variable that carries its own type, as visit_Name returns it.
Entity(var, type) == [k |-> "Entity", var |-> var, type |-> type]

\* var.clone(dimensions=dimensions, type=var.type.clone(shape=dimensions))
clone_shape(v, dimensions) ==
    Entity(clone_dimensions(v.var, dimensions), [v.type EXCEPT !.shape = dimensions])

\* o.ch = <<Name, array spec or None, char length or None, initialization or None>>
visit_Entity_Decl(o, sc, env) ==
    Then(Return(Entity(visit(o.ch[1], ScopeOf(sc, env)), SymbolAttributes("DEFERRED")), env),
         LAMBDA named :
    Then(IF o.ch[2] # PyNone
         THEN Return(clone_shape(named.r, visit(o.ch[2], ScopeOf(sc, env))), named)
         ELSE named, LAMBDA shaped :
    Then(IF o.ch[3] # PyNone THEN warn_or_fail(shaped) ELSE shaped, LAMBDA w :
    IF o.ch[4] # PyNone
    THEN Return([shaped.r EXCEPT !.type.initial = visit(o.ch[4], ScopeOf(sc, env))], w)
    ELSE Return(shaped.r, w))))

\* dict(attrs) applied by _type.clone(**attrs): an Attr_Spec sets a flag, an
\* Intent_Attr_Spec <<'INTENT', Intent_Spec>> the intent, a Dimension_Attr_Spec
\* <<'DIMENSION', Array_Spec>> the dimension.
RECURSIVE clone_attrs(_, _, _)
clone_attrs(_type, attrs, sc) ==
    IF attrs = <<>> THEN _type
    ELSE clone_attrs(
            CASE Head(attrs).k = "Attr_Spec" ->
                    [_type EXCEPT !.flags = @ \cup {lower(Head(attrs).s)}]
              [] Head(attrs).k = "Intent_Attr_Spec" ->
                    [_type EXCEPT !.intent = lower(Head(attrs).ch[2].s)]
              [] Head(attrs).k = "Dimension_Attr_Spec" ->
                    [_type EXCEPT !.dimension = visit(Head(attrs).ch[2], sc)]
              [] OTHER -> _type,
            Tail(attrs), sc)

\* DIMENSION is called shape: _type.clone(shape=_type.dimension, dimension=None)
dimension_to_shape(_type) ==
    IF _type.dimension # None
    THEN [_type EXCEPT !.shape = _type.dimension, !.dimension = None]
    ELSE _type

\* EXTERNAL: _type.clone(return_type=...), the dtype unless it is DEFERRED
external_return_type(_type) ==
    IF "external" \in _type.flags
    THEN [_type EXCEPT !.return_type = IF _type.dtype # "DEFERRED" THEN _type.dtype ELSE ""]
    ELSE _type

\* The symbol-table updates of visit_Type_Declaration_Stmt, one per variable.
RECURSIVE declare(_, _, _, _)
declare(env, sc, variables, _type) ==
    IF variables = <<>> THEN env
    ELSE declare(SetSymbol(env, sc, Head(variables).var.n,
                           IF "external" \in _type.flags
                           THEN clone_with(Head(variables).type,
                                           [_type EXCEPT !.dtype = "PROCEDURE",
                                                         !.name = Head(variables).var.n,
                                                         !.is_function = TRUE])
                           ELSE clone_with(Head(variables).type, _type)),
                 sc, Tail(variables), _type)

\* The Declaration node and the table updates, for the common type _type (its
\* DIMENSION still to be moved to the shape) and the variables decls.r.
declaration(sc, decls, _type) ==
    Return(Expr("Declaration", IF "external" \in _type.flags THEN "external" ELSE "",
                <<Tuple([i \in DOMAIN decls.r.ch |->
                            IF _type.dimension # None
                            THEN clone_dimensions(decls.r.ch[i].var, _type.dimension)
                            ELSE decls.r.ch[i].var]),
                  dimension_to_shape(_type).shape>>),
           declare(decls, sc, decls.r.ch, external_return_type(dimension_to_shape(_type))))

\* o.ch = <<type spec, Attr_Spec_List or None, Entity_Decl_List>>
visit_Type_Declaration_Stmt(o, sc, env) ==
    Then(visit_stmt(o.ch[1], sc, env), LAMBDA spec :
    Then(visit_each(o.ch[3].ch, sc, spec), LAMBDA decls :
    declaration(sc, decls,
                clone_attrs(spec.r, IF o.ch[2] # PyNone THEN o.ch[2].ch ELSE <<>>,
                            ScopeOf(sc, spec)))))

\* The symbol-table updates of visit_External_Stmt, one per name: a name that
\* the scope chain does not have becomes a procedure that is not a function, a
\* name that it has keeps its entry, marked external.
RECURSIVE external(_, _, _)
external(env, sc, variables) ==
    IF variables = <<>> THEN env
    ELSE external(SetSymbol(env, sc, Head(variables).n,
                            IF lookup(ScopeOf(sc, env), Head(variables).n) = Unbound
                            THEN [ProcedureType(Head(variables).n, FALSE) EXCEPT
                                     !.flags = {"external"}]
                            ELSE [lookup(ScopeOf(sc, env), Head(variables).n) EXCEPT
                                     !.flags = @ \cup {"external"}]),
                  sc, Tail(variables))

\* o.ch = <<'EXTERNAL', External_Name_List>>
visit_External_Stmt(o, sc, env) ==
    Then(assert_stmt(o.ch[1] \in {Str("EXTERNAL"), Str("external")}, env), LAMBDA a :
    Then(Return(visit(o.ch[2], ScopeOf(sc, a)), a), LAMBDA variables :
    Return(Expr("Declaration", "external", <<variables.r, None>>),
           external(variables, sc, variables.r.ch))))

\* o.ch = <<Type_Attr_Spec_List or None, Type_Name, Type_Param_Name_List or None>>
visit_Derived_Type_Stmt(o, sc, env) ==
    Then(IF o.ch[1] # PyNone THEN warn_or_fail(env) ELSE env, LAMBDA w1 :
    Then(IF o.ch[3] # PyNone THEN warn_or_fail(w1) ELSE w1, LAMBDA w2 :
    Return(StrVal(o.ch[2].s), w2)))

visit_Component_Part(o, sc, env) == visit_each(o.ch, sc, env)

\* ir.TypeDef(name=name, body=body, scope=scope)
TypeDef(name, body, sc) == Expr("TypeDef", name, <<ScopeRef(sc), Tuple(flatten(body))>>)

\* visit_Derived_Type_Def whose body is lowered in the enclosing scope.
visit_Derived_Type_Def_flat(o, sc, env) ==
    Then(visit_each(Slice(o.ch, 1, get_child(o, "Derived_Type_Stmt") - 1), sc, env),
         LAMBDA pre :
    Then(visit_stmt(o.ch[get_child(o, "Derived_Type_Stmt")], sc, pre), LAMBDA name :
    Then(visit_each(Slice(o.ch, get_child(o, "Derived_Type_Stmt") + 1,
                          get_child(o, "End_Type_Stmt") - 1),
                    sc, name), LAMBDA body :
    Return(Tuple(pre.r.ch \o <<TypeDef(name.r.n, body.r.ch, sc)>>),
           SetSymbol(body, sc, name.r.n,
                     DerivedType(name.r.n, TypeDef(name.r.n, body.r.ch, sc)))))))

\* o.ch = <<comments, Derived_Type_Stmt, the body, End_Type_Stmt>>.  The body
\* carries no `!$loki dimension` pragma, so that attaching, processing and
\* detaching pragmas leaves it as it is.  The scope of the body is the one
\* NewScope adds, the last of the tables.
visit_Derived_Type_Def(o, sc, env) ==
    Then(visit_each(Slice(o.ch, 1, get_child(o, "Derived_Type_Stmt") - 1), sc, env),
         LAMBDA pre :
    Then(visit_stmt(o.ch[get_child(o, "Derived_Type_Stmt")], sc, pre), LAMBDA name :
    Then(visit_each(Slice(o.ch, get_child(o, "Derived_Type_Stmt") + 1,
                          get_child(o, "End_Type_Stmt") - 1),
                    Len(name.symbols) + 1, NewScope(name, sc)), LAMBDA body :
    Return(Tuple(pre.r.ch \o <<TypeDef(name.r.n, body.r.ch, Len(name.symbols) + 1)>>),
           SetSymbol(body, sc, name.r.n,
                     DerivedType(name.r.n,
                                 TypeDef(name.r.n, body.r.ch, Len(name.symbols) + 1)))))))

\* visit_Intrinsic_Stmt and its aliases: ir.Intrinsic(text=o.tostr())
visit_Intrinsic_Stmt(o, sc, env) == Return(Expr("Intrinsic", "", Text(tostr(o))), env)

\* o.ch = <<lhs, rhs>>, o.s the assignment operator
visit_Assignment_Stmt(o, sc, env) ==
    Return(Build("Assignment", IF o.k = "Pointer_Assignment_Stmt" THEN "ptr" ELSE "",
                 <<visit(o.ch[1], ScopeOf(sc, env)), visit(o.ch[2], ScopeOf(sc, env))>>), env)

\* The positions of the children of class cls, in order.
RECURSIVE indices(_, _, _)
indices(children, cls, i) ==
    IF i > Len(children) THEN <<>>
    ELSE (IF children[i].k = cls THEN <<i>> ELSE <<>>) \o indices(children, cls, i + 1)

\* [tuple(visit(c) for c in o.children[start+1:stop]) for start, stop in zip(starts, stops)]
RECURSIVE visit_slices(_, _, _, _, _)
visit_slices(o, starts, stops, sc, env) ==
    IF starts = <<>> \/ stops = <<>> THEN Return(Tuple(<<>>), env)
    ELSE Then(visit_each(Slice(o.ch, Head(starts) + 1, Head(stops) - 1), sc, env), LAMBDA b :
         Then(visit_slices(o, Tail(starts), Tail(stops), sc, b), LAMBDA t :
         Return(Tuple(<<b.r>> \o t.r.ch), t)))

\* ir.Conditional(condition, body, else_body, inline=False, has_elseif)
Conditional(condition, body, else_body, has_elseif) ==
    Expr("Conditional", IF has_elseif THEN "has_elseif" ELSE "", <<condition, body, else_body>>)

\* The chain of Conditionals that never records a further branch.
RECURSIVE chain_unmarked(_, _, _, _)
chain_unmarked(conditions, bodies, idx, node) ==
    IF idx = 0 THEN node
    ELSE chain_unmarked(conditions, bodies, idx - 1,
                        Conditional(conditions[idx], bodies[idx], Tuple(<<node>>), FALSE))

\* for idx in reversed(range(len(conditions)-1)): the branch idx takes the chain
\* built so far as its else body.
RECURSIVE chain(_, _, _, _)
chain(conditions, bodies, idx, node) ==
    IF idx = 0 THEN node
    ELSE chain(conditions, bodies, idx - 1,
               Conditional(conditions[idx], bodies[idx], Tuple(<<node>>), TRUE))

\* The children of o at the positions ps.
At(o, ps) == [i \in DOMAIN ps |-> o.ch[ps[i]]]

\* The position of the Else_Stmt, or of the End_If_Stmt when there is none.
else_stmt_index(o) ==
    IF get_child(o, "Else_Stmt") # 0 THEN get_child(o, "Else_Stmt")
    ELSE get_child(o, "End_If_Stmt")

\* visit_If_Construct that only reports what follows the END IF.
visit_If_Construct_tolerant(o, sc, env) ==
    Then(visit_each(Slice(o.ch, 1, get_child(o, "If_Then_Stmt") - 1), sc, env), LAMBDA pre :
    Then(visit_each(At(o, <<get_child(o, "If_Then_Stmt")>> \o indices(o.ch, "Else_If_Stmt", 1)),
                    sc, pre), LAMBDA conditions :
    Then(visit_slices(o, <<get_child(o, "If_Then_Stmt")>> \o indices(o.ch, "Else_If_Stmt", 1),
                      indices(o.ch, "Else_If_Stmt", 1) \o <<else_stmt_index(o)>>,
                      sc, conditions), LAMBDA bodies :
    Then(visit_each(Slice(o.ch, else_stmt_index(o) + 1, get_child(o, "End_If_Stmt") - 1),
                    sc, bodies), LAMBDA else_body :
    Then(IF Slice(o.ch, get_child(o, "End_If_Stmt") + 1, Len(o.ch)) # <<>>
         THEN warn_or_fail(else_body) ELSE else_body, LAMBDA a :
    Return(Tuple(pre.r.ch \o
                 <<chain(conditions.r.ch, bodies.r.ch, Len(conditions.r.ch) - 1,
                         Conditional(conditions.r.ch[Len(conditions.r.ch)],
                                     bodies.r.ch[Len(bodies.r.ch)], else_body.r, FALSE))>>),
           a))))))

\* o.ch = <<comments, If_Then_Stmt, body, (Else_If_Stmt, body)*, [Else_Stmt, body],
\* End_If_Stmt>>.  The construct carries no name.
visit_If_Construct(o, sc, env) ==
    Then(visit_each(Slice(o.ch, 1, get_child(o, "If_Then_Stmt") - 1), sc, env), LAMBDA pre :
    Then(visit_each(At(o, <<get_child(o, "If_Then_Stmt")>> \o indices(o.ch, "Else_If_Stmt", 1)),
                    sc, pre), LAMBDA conditions :
    Then(visit_slices(o, <<get_child(o, "If_Then_Stmt")>> \o indices(o.ch, "Else_If_Stmt", 1),
                      indices(o.ch, "Else_If_Stmt", 1) \o <<else_stmt_index(o)>>,
                      sc, conditions), LAMBDA bodies :
    Then(visit_each(Slice(o.ch, else_stmt_index(o) + 1, get_child(o, "End_If_Stmt") - 1),
                    sc, bodies), LAMBDA else_body :
    Then(assert_stmt(Slice(o.ch, get_child(o, "End_If_Stmt") + 1, Len(o.ch)) = <<>>, else_body),
         LAMBDA a :
    Return(Tuple(pre.r.ch \o
                 <<chain(conditions.r.ch, bodies.r.ch, Len(conditions.r.ch) - 1,
                         Conditional(conditions.r.ch[Len(conditions.r.ch)],
                                     bodies.r.ch[Len(bodies.r.ch)], else_body.r, FALSE))>>),
           a))))))

\* visit_If_Then_Stmt, visit_Else_If_Stmt, visit_Select_Case_Stmt, visit_Case_Stmt:
\* the lowered only child.
visit_If_Then_Stmt(o, sc, env) == visit_stmt(o.ch[1], sc, env)

\* values.index('DEFAULT'), 0 when 'DEFAULT' is not among the values.
RECURSIVE default_index(_, _)
default_index(values, i) ==
    IF i > Len(values) THEN 0
    ELSE IF values[i] = StrVal("DEFAULT") THEN i ELSE default_index(values, i + 1)

\* items[:i] + items[i+1:], all of items when i is 0.
Without(items, i) ==
    IF i = 0 THEN items ELSE Slice(items, 1, i - 1) \o Slice(items, i + 1, Len(items))

\* ir.MultiConditional(expr, values, bodies, else_body): the DEFAULT case, if
\* any, is taken out of the values and bodies and becomes the else body.
MultiConditional(expr, values, bodies) ==
    Expr("MultiConditional", "",
         <<expr, Tuple(Without(values, default_index(values, 1))),
           Tuple(Without(bodies, default_index(values, 1))),
           IF default_index(values, 1) # 0 THEN bodies[default_index(values, 1)] ELSE None>>)

\* o.ch = <<comments, Select_Case_Stmt, (Case_Stmt, body)*, End_Select_Stmt>>
visit_Case_Construct(o, sc, env) ==
    Then(visit_each(Slice(o.ch, 1, get_child(o, "Select_Case_Stmt") - 1), sc, env), LAMBDA pre :
    Then(visit_stmt(o.ch[get_child(o, "Select_Case_Stmt")], sc, pre), LAMBDA expr :
    Then(IF indices(o.ch, "Case_Stmt", 1) = <<>> THEN Return(Raise("ValueError"), expr)
         ELSE assert_stmt(Head(indices(o.ch, "Case_Stmt", 1))
                             = get_child(o, "Select_Case_Stmt") + 1, expr), LAMBDA a1 :
    Then(visit_each(At(o, indices(o.ch, "Case_Stmt", 1)), sc, a1), LAMBDA values :
    Then(visit_slices(o, indices(o.ch, "Case_Stmt", 1),
                      Tail(indices(o.ch, "Case_Stmt", 1)) \o <<get_child(o, "End_Select_Stmt")>>,
                      sc, values), LAMBDA bodies :
    Then(assert_stmt(Slice(o.ch, get_child(o, "End_Select_Stmt") + 1, Len(o.ch)) = <<>>,
                     bodies), LAMBDA a2 :
    Return(Tuple(pre.r.ch \o <<MultiConditional(expr.r, values.r.ch, bodies.r.ch)>>), a2)))))))

\* node_sublist: the nodes of nodelist that sit between a node of class
\* starttype and the next node of class endtype; active is the flag of the
\* loop of the source.
RECURSIVE node_sublist_from(_, _, _, _)
node_sublist_from(nodelist, starttype, endtype, active) ==
    IF nodelist = <<>> THEN <<>>
    ELSE (IF active /\ Head(nodelist).k # endtype THEN <<Head(nodelist)>> ELSE <<>>)
         \o node_sublist_from(Tail(nodelist), starttype, endtype,
                              IF Head(nodelist).k = starttype THEN TRUE
                              ELSE active /\ Head(nodelist).k # endtype)

\* node_sublist that takes the end marker in as well.
node_sublist_with_end(nodelist, starttype, endtype) ==
    node_sublist_from(nodelist, starttype, "", FALSE)

node_sublist(nodelist, starttype, endtype) ==
    node_sublist_from(nodelist, starttype, endtype, FALSE)

\* rget_child: the position of the last child of class cls, 0 without one.
RECURSIVE rindex(_, _, _)
rindex(children, cls, i) ==
    IF i < 1 THEN 0
    ELSE IF children[i].k = cls THEN i ELSE rindex(children, cls, i - 1)

rget_child(o, cls) == rindex(o.ch, cls, Len(o.ch))

\* A statement that carries a label: o.item.label.
Labelled(o, label) == [k |-> o.k, s |-> o.s, ch |-> o.ch, label |-> label]

\* str(o.item.label)
item_label(o) == IF "label" \in DOMAIN o THEN o.label ELSE "None"

\* o.ch = <<the scalar logical expression or None, the loop variable, the
\* list of bounds>>: (condition, None) or (variable, LoopRange(bounds))
visit_Loop_Control(o, sc, env) ==
    IF o.ch[1] # PyNone
    THEN Then(visit_stmt(o.ch[1], sc, env), LAMBDA condition :
         Return(Tuple(<<condition.r, None>>), condition))
    ELSE Then(visit_stmt(o.ch[2], sc, env), LAMBDA variable :
         Then(visit_each(o.ch[3].ch, sc, variable), LAMBDA bounds :
         Return(Tuple(<<variable.r, Expr("LoopRange", "", flatten(bounds.r.ch))>>), bounds)))

\* visit_Nonlabel_Do_Stmt and visit_Label_Do_Stmt: (variable, bounds), both
\* None without a loop control.
visit_Nonlabel_Do_Stmt(o, sc, env) ==
    IF get_child(o, "Loop_Control") # 0
    THEN visit_stmt(o.ch[get_child(o, "Loop_Control")], sc, env)
    ELSE Return(Tuple(<<None, None>>), env)

\* The first DO statement among the children, 0 without one.
RECURSIVE do_stmt_index(_, _)
do_stmt_index(children, i) ==
    IF i > Len(children) THEN 0
    ELSE IF children[i].k \in {"Nonlabel_Do_Stmt", "Label_Do_Stmt"} THEN i
    ELSE do_stmt_index(children, i + 1)

\* ir.Loop(variable, bounds, body, loop_label, has_end_do), or ir.WhileLoop
\* with the condition in the place of the variable when there are no bounds.
Loop(variable, bounds, body, loop_label, has_end_do) ==
    Expr(IF bounds # None THEN "Loop" ELSE "WhileLoop",
         IF has_end_do THEN "has_end_do" ELSE "",
         <<variable, bounds, Tuple(body), loop_label>>)

\* The closing statement of a loop without END DO: the last CONTINUE among
\* the children, whose label has to be the label of the DO statement.
closing_continue(o, do_stmt, env) ==
    IF rget_child(o, "Continue_Stmt") = 0 \/ do_stmt.k # "Label_Do_Stmt"
    THEN Return(Raise("AttributeError"), env)
    ELSE assert_stmt(item_label(o.ch[rget_child(o, "Continue_Stmt")]) = do_stmt.ch[2].s, env)

\* o.ch = <<comments, the DO statement, the body, END DO or CONTINUE>>
visit_Block_Nonlabel_Do_Construct(o, sc, env) ==
    IF do_stmt_index(o.ch, 1) = 0 THEN Return(Raise("AttributeError"), env)
    ELSE
    Then(visit_each(Slice(o.ch, 1, do_stmt_index(o.ch, 1) - 1), sc, env), LAMBDA banter :
    Then(IF rget_child(o, "End_Do_Stmt") # 0 THEN Return(None, banter)
         ELSE closing_continue(o, o.ch[do_stmt_index(o.ch, 1)], banter), LAMBDA a :
    Then(visit_stmt(o.ch[do_stmt_index(o.ch, 1)], sc, a), LAMBDA header :
    Then(visit_each(node_sublist(o.ch, o.ch[do_stmt_index(o.ch, 1)].k, "End_Do_Stmt"),
                    sc, header), LAMBDA body :
    Return(Tuple(banter.r.ch
                 \o <<Loop(header.r.ch[1], header.r.ch[2], flatten(body.r.ch),
                           IF o.ch[do_stmt_index(o.ch, 1)].k = "Label_Do_Stmt"
                           THEN StrVal(o.ch[do_stmt_index(o.ch, 1)].ch[2].s) ELSE None,
                           rget_child(o, "End_Do_Stmt") # 0)>>), body)))))

(***************************************************************************)
(* Expression search (ExpressionRetriever) and the binding of the symbols  *)
(* of a lowered expression to a scope.  The query of a search is one of    *)
(* "Expression", "Variable" and "InlineCall", the classes the three        *)
(* retrieve functions test for.                                            *)
(***************************************************************************)
\* Cast(name, expression, kind): ch = <<parameters, kind>>
Cast(name, parameters, kind) == Expr("Cast", name, <<Tuple(parameters), kind>>)

\* RangeIndex: ch = <<lower, upper>> or <<lower, upper, step>>, None for a
\* bound left out.
RangeLower(expr) == expr.ch[1]
RangeUpper(expr) == expr.ch[2]
RangeStep(expr) == IF Len(expr.ch) >= 3 THEN expr.ch[3] ELSE None

\* isinstance(e, pymbolic.primitives.Expression): every node of a tree, but not
\* None, a str or a tuple.
IsExpression(e) == e.k \notin {"None", "str", "tuple", "Raise"}

query(q, e) ==
    CASE q = "Expression" -> IsExpression(e)
      [] q = "Variable" -> e.k \in {"Variable", "Array"}
      [] q = "InlineCall" -> e.k = "InlineCall"

\* post_visit: the node, if the query accepts it
post_visit(expr, q) == IF query(q, expr) THEN <<expr>> ELSE <<>>

RECURSIVE retriever_rec(_, _)

\* self.rec on each of the items, in order
RECURSIVE rec_each(_, _)
rec_each(items, q) ==
    IF items = <<>> THEN <<>> ELSE retriever_rec(Head(items), q) \o rec_each(Tail(items), q)

\* `if expr.lower:` and the like: None is skipped.
rec_if_given(item, q) == IF item # None THEN retriever_rec(item, q) ELSE <<>>

\* ExpressionRetriever.map_array that walks an array like a scalar.
map_array_as_scalar(expr, q) == post_visit(expr, q)

\* ExpressionRetriever.map_array: the dimensions, then the array
map_array(expr, q) == rec_each(expr.ch, q) \o post_visit(expr, q)

\* ExpressionRetriever.map_cast: the parameters, the kind if it is an
\* expression, then the cast
map_cast(expr, q) ==
    rec_each(expr.ch[1].ch, q)
        \o (IF IsExpression(expr.ch[2]) THEN retriever_rec(expr.ch[2], q) ELSE <<>>)
        \o post_visit(expr, q)

\* ExpressionRetriever.map_range_index
map_range_index(expr, q) ==
    rec_if_given(RangeLower(expr), q) \o rec_if_given(RangeUpper(expr), q)
        \o rec_if_given(RangeStep(expr), q) \o post_visit(expr, q)

\* WalkMapper.map_call_with_kwargs: the function, the parameters, the keyword
\* parameters, then the call; expr.ch = <<function, parameters, kw_parameters>>
map_call_with_kwargs(expr, q) ==
    retriever_rec(expr.ch[1], q) \o rec_each(expr.ch[2].ch, q) \o rec_each(expr.ch[3].ch, q)
        \o post_visit(expr, q)

\* The mapper method of each class of node.
retriever_rec(expr, q) ==
    CASE expr.k = "Variable" -> post_visit(expr, q)
      [] expr.k = "Array" -> map_array(expr, q)
      [] expr.k \in {"IntLiteral", "int"} -> post_visit(expr, q)
      [] expr.k = "InlineCall" -> map_call_with_kwargs(expr, q)
      [] expr.k = "Cast" -> map_cast(expr, q)
      [] expr.k = "RangeIndex" -> map_range_index(expr, q)
      [] expr.k \in {"Sum", "Product", "ParenthesisedAdd", "ParenthesisedMul",
                     "LogicalAnd", "LogicalOr"} ->
            rec_each(expr.ch, q) \o post_visit(expr, q)
      [] expr.k \in {"Power", "ParenthesisedPow", "Quotient", "Comparison"} ->
            retriever_rec(expr.ch[1], q) \o retriever_rec(expr.ch[2], q) \o post_visit(expr, q)
      [] expr.k = "LogicalNot" -> retriever_rec(expr.ch[1], q) \o post_visit(expr, q)

\* v.clone(scope=scope): the symbol with its scope replaced, its name and its
\* dimensions as they were.  A symbol built without a scope has no such field.
clone_scope(v, sc) == [k |-> v.k, n |-> v.n, ch |-> v.ch, scope |-> sc]

\* FindTypedSymbols().visit(_ir): the variables of the tree
FindTypedSymbols(_ir) == retriever_rec(_ir, "Variable")

\* {v: v.clone(scope=scope) for v in FindTypedSymbols().visit(_ir)}
rescope_map(found, sc) ==
    [v \in {found[i] : i \in DOMAIN found} |-> clone_scope(v, sc)]

\* SubstituteExpressions(expr_map).visit(_ir): a node that is a key of the map
\* is replaced by its value, any other node is rebuilt from its mapped children.
RECURSIVE SubstituteExpressions(_, _)
SubstituteExpressions(expr_map, expr) ==
    IF expr \in DOMAIN expr_map THEN expr_map[expr]
    ELSE [expr EXCEPT !.ch = [i \in DOMAIN expr.ch |->
                                 SubstituteExpressions(expr_map, expr.ch[i])]]

rescope(_ir, sc) == SubstituteExpressions(rescope_map(FindTypedSymbols(_ir), sc), _ir)

\* ExpressionDimensionsMapper()(expr) for scalar subscripts, followed by the
\* removal of the shape of a scalar expression: the shape (1,) becomes None.
dimensions_shape(expr) ==
    IF expr.k = "Array" /\ Len(expr.ch) > 1
    THEN Tuple([i \in DOMAIN expr.ch |-> Expr("IntLiteral", "1", <<>>)])
    ELSE None

\* The type an associate name takes from its selector expr, or the
\* AttributeError of _type.clone on a selector that is not in the tables.
association_type(expr, sc) ==
    IF expr.k \in {"Variable", "Array"}
    THEN IF expr.k = "Array"
         THEN IF lookup(sc, expr.n) = Unbound THEN Raise("AttributeError")
              ELSE [lookup(sc, expr.n) EXCEPT !.shape = dimensions_shape(expr)]
         ELSE lookup(sc, expr.n)
    ELSE [SymbolAttributes("DEFERRED") EXCEPT !.shape = dimensions_shape(expr)]

\* for expr, name in associations: scope.symbols[name.name] = _type
RECURSIVE associate(_, _, _)
associate(env, sc, associations) ==
    IF associations = <<>> THEN env
    ELSE Then(Return(association_type(Head(associations).ch[1], ScopeOf(sc, env)), env),
              LAMBDA _type :
         associate(SetSymbol(_type, sc, Head(associations).ch[2].n, _type.r),
                   sc, Tail(associations)))

\* rescoped_associations: the symbols of each selector bound to the parent
\* scope, the associate name to the scope of the construct
rescoped(associations, parent_scope, sc) ==
    Tuple([i \in DOMAIN associations.ch |->
              Tuple(<<rescope(associations.ch[i].ch[1], parent_scope),
                      clone_scope(associations.ch[i].ch[2], sc)>>)])

\* o.ch = <<comments, Associate_Stmt, body, End_Associate_Stmt>>.  The scope of
\* the construct is the enclosing scope itself.
visit_Associate_Construct(o, sc, env) ==
    Then(visit_each(Slice(o.ch, 1, get_child(o, "Associate_Stmt") - 1), sc, env), LAMBDA pre :
    Then(visit_stmt(o.ch[get_child(o, "Associate_Stmt")], sc, pre), LAMBDA lowered :
    Then(Return(rescoped(lowered.r, sc, sc), lowered), LAMBDA associations :
    Then(associate(associations, sc, associations.r.ch), LAMBDA updated :
    Then(visit_each(Slice(o.ch, get_child(o, "Associate_Stmt") + 1,
                          get_child(o, "End_Associate_Stmt") - 1), sc, updated), LAMBDA body :
    Then(assert_stmt(Slice(o.ch, get_child(o, "End_Associate_Stmt") + 1, Len(o.ch)) = <<>>,
                     body), LAMBDA a :
    Return(Tuple(pre.r.ch \o <<Expr("Associate", "", <<associations.r, body.r>>)>>), a)))))))

\* o.ch = <<comments, Interface_Stmt, body, End_Interface_Stmt>>
visit_Interface_Block(o, sc, env) ==
    Then(visit_each(Slice(o.ch, 1, get_child(o, "Interface_Stmt") - 1), sc, env), LAMBDA pre :
    Then(visit_stmt(o.ch[get_child(o, "Interface_Stmt")], sc, pre), LAMBDA spec :
    Then(visit_each(Slice(o.ch, get_child(o, "Interface_Stmt") + 1,
                          get_child(o, "End_Interface_Stmt") - 1), sc, spec), LAMBDA body :
    Then(assert_stmt(Slice(o.ch, get_child(o, "End_Interface_Stmt") + 1, Len(o.ch)) = <<>>,
                     body), LAMBDA a :
    Return(Tuple(pre.r.ch \o <<Expr("Interface", "", <<spec.r, body.r>>)>>), a)))))

\* v.clone(imported=True, module=module)
imported(v, module) == [v EXCEPT !.flags = @ \cup {"imported"}, !.module = module]

\* import_all that keeps the entries the scope already has.
import_all_keeping(env, sc, module) ==
    [env EXCEPT !.symbols[sc] =
        [n \in Names |-> IF definitions[module].symbols[n] # Unbound /\ @[n] = Unbound
                         THEN imported(definitions[module].symbols[n], module)
                         ELSE @[n]]]

\* for k, v in module.symbols.items(): scope.symbols[k] = v.clone(imported=True, ...)
import_all(env, sc, module) ==
    [env EXCEPT !.symbols[sc] =
        [n \in Names |-> IF definitions[module].symbols[n] # Unbound
                         THEN imported(definitions[module].symbols[n], module)
                         ELSE @[n]]]

\* The table entries of the names of an ONLY list: deferred when the module is
\* not known, the module's entry otherwise (KeyError when it has none).
RECURSIVE import_only(_, _, _, _)
import_only(env, sc, module, names) ==
    IF names = <<>> THEN env
    ELSE IF ~definitions[module].known
    THEN import_only(SetSymbol(env, sc, Head(names).n,
                               imported(SymbolAttributes("DEFERRED"), "")),
                     sc, module, Tail(names))
    ELSE IF definitions[module].symbols[Head(names).n] = Unbound
    THEN Return(Raise("KeyError"), env)
    ELSE import_only(SetSymbol(env, sc, Head(names).n,
                               imported(definitions[module].symbols[Head(names).n], module)),
                     sc, module, Tail(names))

\* ir.Import(module=name, symbols=symbols)
Import(module, names) == Expr("Import", module, <<names>>)

\* o.ch = <<module nature or None, '::' or None, Module_Name,
\*          '' or ', ONLY:' or ',', Only_List or Rename_List or None>>.
\* After a rename list nothing is bound to the local `symbols` that the return
\* statement reads.
visit_Use_Stmt(o, sc, env) ==
    Then(IF o.ch[1] # PyNone THEN warn_or_fail(env) ELSE env, LAMBDA w :
    IF o.ch[4] = Str("")
    THEN Return(Import(o.ch[3].s, None),
                IF definitions[o.ch[3].s].known THEN import_all(w, sc, o.ch[3].s) ELSE w)
    ELSE IF o.ch[4] = Str(", ONLY:")
    THEN Then(Return(IF o.ch[5] = PyNone THEN Tuple(<<>>) ELSE visit(o.ch[5], ScopeOf(sc, w)), w),
              LAMBDA names :
         Then(import_only(names, sc, o.ch[3].s, names.r.ch), LAMBDA table :
         Return(Import(o.ch[3].s, names.r), table)))
    ELSE IF o.ch[4] = Str(",")
    THEN Then(warn_or_fail(w), LAMBDA w2 : Return(Raise("UnboundLocalError"), w2))
    ELSE Return(Raise("ValueError"), w))

\* o.ch = <<the keyword, the option value>>
visit_Alloc_Opt(o, sc, env) ==
    IF lower(o.ch[1].s) = "source"
    THEN Return(Build("tuple", "", <<StrVal("source"), visit(o.ch[2], ScopeOf(sc, env))>>), env)
    ELSE Then(warn_or_fail(env), LAMBDA w : Return(None, w))

\* dict(items): every item has to be a pair.
dict(items) ==
    IF \E i \in DOMAIN items : ~IsTuple(items[i]) THEN Raise("TypeError") ELSE Tuple(items)

\* alloc_opts.get('source')
RECURSIVE get_source(_)
get_source(items) ==
    IF items = <<>> THEN None
    ELSE IF items[Len(items)].ch[1] = StrVal("source") THEN items[Len(items)].ch[2]
    ELSE get_source(SubSeq(items, 1, Len(items) - 1))

\* o.ch = <<Type_Spec or None, Allocation_List, Alloc_Opt_List or None>>
visit_Allocate_Stmt(o, sc, env) ==
    Then(IF o.ch[1] # PyNone THEN warn_or_fail(env) ELSE env, LAMBDA w :
    Then(IF o.ch[3] # PyNone
         THEN Then(visit_each(o.ch[3].ch, sc, w), LAMBDA opts : Return(dict(opts.r.ch), opts))
         ELSE Return(Tuple(<<>>), w), LAMBDA alloc_opts :
    Then(Return(visit(o.ch[2], ScopeOf(sc, alloc_opts)), alloc_opts), LAMBDA variables :
    Return(Expr("Allocation", "", <<variables.r, get_source(alloc_opts.r.ch)>>), variables))))

\* o.ch = <<prefix or None, Subroutine_Name, Dummy_Arg_List or None, binding or None>>:
\* (name, args, bind)
visit_Subroutine_Stmt(o, sc, env) ==
    Then(IF o.ch[1] # PyNone THEN warn_or_fail(env) ELSE env, LAMBDA w :
    Return(Tuple(<<StrVal(o.ch[2].s),
                   IF o.ch[3] = PyNone THEN Tuple(<<>>)
                   ELSE Tuple([i \in DOMAIN o.ch[3].ch |-> StrVal(o.ch[3].ch[i].s)]),
                   IF o.ch[4] = PyNone THEN None ELSE StrVal(o.ch[4].s)>>), w))

IsNotNone(c) == c # None /\ c # PyNone

\* children[0] if there is one child, the children if there are more, else None
flattened_hierarchy(children) ==
    IF Len(children) = 1 THEN children[1]
    ELSE IF Len(children) > 0 THEN Tuple(children) ELSE None

\* The default for a node without a handler: o.ch are o.items.
visit_Base(o, sc, env) ==
    Then(warn_or_fail(env), LAMBDA w :
    Then(visit_each(SelectSeq(o.ch, IsNotNone), sc, w), LAMBDA children :
    Return(flattened_hierarchy(children.r.ch), children)))

\* The default for a block node without a handler: o.ch are o.content.
visit_BlockBase(o, sc, env) ==
    Then(warn_or_fail(env), LAMBDA w :
    Then(visit_each(o.ch, sc, w), LAMBDA children :
    Return(flattened_hierarchy(SelectSeq(children.r.ch, IsNotNone)), children)))

\* The classes of fparser that derive from BlockBase and have no handler.
UnhandledBlocks == {"Forall_Construct", "Enum_Def"}

\* FParser2IR.visit on a statement or construct: GenericVisitor dispatch on the
\* class of the node.  An expression is lowered against the tables as they
\* are, a str has no handler and yields None, and a node of any other class
\* falls back to visit_BlockBase or visit_Base.
visit_stmt(o, sc, env) ==
    CASE o.k = "Comment" -> visit_Comment(o, sc, env)
      [] o.k = "Kind_Selector" -> visit_Kind_Selector(o, sc, env)
      [] o.k = "Length_Selector" -> visit_Length_Selector(o, sc, env)
      [] o.k = "Intrinsic_Type_Spec" -> visit_Intrinsic_Type_Spec(o, sc, env)
      [] o.k \in {"Entity_Decl", "Component_Decl"} -> visit_Entity_Decl(o, sc, env)
      [] o.k \in {"Type_Declaration_Stmt", "Data_Component_Def_Stmt"}
            -> visit_Type_Declaration_Stmt(o, sc, env)
      [] o.k = "External_Stmt" -> visit_External_Stmt(o, sc, env)
      [] o.k = "Derived_Type_Stmt" -> visit_Derived_Type_Stmt(o, sc, env)
      [] o.k = "Component_Part" -> visit_Component_Part(o, sc, env)
      [] o.k = "Derived_Type_Def" -> visit_Derived_Type_Def(o, sc, env)
      [] o.k \in {"Return_Stmt", "Write_Stmt", "Procedure_Stmt", "Continue_Stmt"}
            -> visit_Intrinsic_Stmt(o, sc, env)
      [] o.k \in {"Assignment_Stmt", "Pointer_Assignment_Stmt"}
            -> visit_Assignment_Stmt(o, sc, env)
      [] o.k = "If_Construct" -> visit_If_Construct(o, sc, env)
      [] o.k = "Case_Construct" -> visit_Case_Construct(o, sc, env)
      [] o.k = "Associate_Construct" -> visit_Associate_Construct(o, sc, env)
      [] o.k = "Interface_Block" -> visit_Interface_Block(o, sc, env)
      [] o.k \in {"Block_Nonlabel_Do_Construct", "Block_Label_Do_Construct"}
            -> visit_Block_Nonlabel_Do_Construct(o, sc, env)
      [] o.k \in {"Nonlabel_Do_Stmt", "Label_Do_Stmt"} -> visit_Nonlabel_Do_Stmt(o, sc, env)
      [] o.k = "Loop_Control" -> visit_Loop_Control(o, sc, env)
      [] o.k \in {"If_Then_Stmt", "Else_If_Stmt", "Select_Case_Stmt", "Case_Stmt"}
            -> visit_If_Then_Stmt(o, sc, env)
      [] o.k = "Use_Stmt" -> visit_Use_Stmt(o, sc, env)
      [] o.k = "Alloc_Opt" -> visit_Alloc_Opt(o, sc, env)
      [] o.k = "Allocate_Stmt" -> visit_Allocate_Stmt(o, sc, env)
      [] o.k = "Subroutine_Stmt" -> visit_Subroutine_Stmt(o, sc, env)
      [] o.k \in ExpressionClasses -> Return(visit(o, ScopeOf(sc, env)), env)
      [] o.k = "str" -> Return(None, env)
      [] o.k \in UnhandledBlocks -> visit_BlockBase(o, sc, env)
      [] OTHER -> visit_Base(o, sc, env)

(***************************************************************************)
(* The expression-to-text mapper of the streaming backend                  *)
(* (MaxjCodeMapper).  A text is a sequence of tokens; white space is not   *)
(* modelled.                                                               *)
(***************************************************************************)
PREC_NONE == 0
PREC_SUM == 11
PREC_PRODUCT == 12

parenthesize(t) == <<"(">> \o t \o <<")">>
parenthesize_if_needed(t, enclosing_prec, my_prec) ==
    IF enclosing_prec > my_prec THEN parenthesize(t) ELSE t

\* The token of an exception raised while mapping.
RaiseTok(e) == <<"!" \o e>>
HasRaise(t) == \E i \in DOMAIN t : t[i] = "!IndexError"

\* ch in [FloatLiteral(0.0), IntLiteral(0)]
IsZeroLiteral(e) ==
    \/ e.k = "IntLiteral" /\ e.n = "0"
    \/ e.k = "FloatLiteral" /\ e.n = "0.0"

\* is_zero(e + 1): only a number can cancel the 1.
IsMinusOne(e) == e.k = "int" /\ e.n = "-1"

\* A mapper that does not look for the products led by -1.
get_neg_product_unaware(expr) == None

get_neg_product(expr) ==
    IF IsInstance(expr, "Product") /\ expr.ch # <<>> /\ IsMinusOne(expr.ch[1])
    THEN IF Len(expr.ch) = 2 THEN expr.ch[2] ELSE Expr("Product", "", Tail(expr.ch))
    ELSE None

RECURSIVE rec(_, _)

\* The loop of map_sum over expr.children: the pairs (is_neg_term, term).
RECURSIVE sum_terms(_)
sum_terms(children) ==
    IF children = <<>> THEN <<>>
    ELSE LET c == Head(children)
             neg_prod == get_neg_product(c)
         IN  IF IsZeroLiteral(c) THEN sum_terms(Tail(children))
             ELSE IF neg_prod # None
                  THEN <<[neg |-> TRUE, term |-> rec(neg_prod, PREC_PRODUCT)]>>
                           \o sum_terms(Tail(children))
                  ELSE <<[neg |-> FALSE, term |-> rec(c, PREC_SUM)]>>
                           \o sum_terms(Tail(children))

RECURSIVE join_terms(_)
join_terms(ts) ==
    IF ts = <<>> THEN <<>>
    ELSE <<IF Head(ts).neg THEN "-" ELSE "+">> \o Head(ts).term \o join_terms(Tail(ts))

map_sum(expr, enclosing_prec) ==
    LET ts == sum_terms(expr.ch)
    IN  IF ts = <<>> THEN RaiseTok("IndexError")
        ELSE parenthesize_if_needed(
                 (IF ts[1].neg THEN <<"-">> ELSE <<>>) \o ts[1].term \o join_terms(Tail(ts)),
                 enclosing_prec, PREC_SUM)

\* pymbolic's join_rec(sep, children, prec)
RECURSIVE join_rec(_, _, _)
join_rec(sep, children, prec) ==
    IF children = <<>> THEN <<>>
    ELSE IF Len(children) = 1 THEN rec(children[1], prec)
    ELSE rec(children[1], prec) \o <<sep>> \o join_rec(sep, Tail(children), prec)

map_product(expr, enclosing_prec) ==
    parenthesize_if_needed(join_rec("*", expr.ch, PREC_PRODUCT), enclosing_prec, PREC_PRODUCT)

\* A negative number is parenthesised inside a product or a power.
map_constant(expr, enclosing_prec) ==
    IF IsMinusOne(expr) /\ enclosing_prec > PREC_SUM THEN parenthesize(<<expr.n>>)
    ELSE <<expr.n>>

\* The variables of the model have neither a parent nor a pointer type.
map_scalar(expr, enclosing_prec) == <<expr.n>>

rec(expr, enclosing_prec) ==
    CASE expr.k = "Variable" -> map_scalar(expr, enclosing_prec)
      [] expr.k \in {"IntLiteral", "int"} -> map_constant(expr, enclosing_prec)
      [] expr.k = "Sum" -> map_sum(expr, enclosing_prec)
      [] expr.k = "ParenthesisedAdd" -> parenthesize(map_sum(expr, PREC_NONE))
      [] expr.k = "Product" -> map_product(expr, enclosing_prec)
      [] expr.k = "ParenthesisedMul" -> parenthesize(map_product(expr, PREC_NONE))
      [] OTHER -> <<"<" \o expr.k \o ">">>

(***************************************************************************)
(* The parse trees fparser builds for expressions.  A grammar g gives the  *)
(* names, the literals and, per precedence level, the binary and unary     *)
(* operators in use.  Levels: 0 primary, 1 mult-operand (power),           *)
(* 2 add-operand (times, divide), 3 level-2 (plus, minus), 4 level-4       *)
(* (relational), 5 and-operand (.not.), 6 or-operand (.and.).              *)
(***************************************************************************)
TopLevel == 6

LevelClass(lvl) ==
    CASE lvl = 1 -> "Mult_Operand"
      [] lvl = 2 -> "Add_Operand"
      [] lvl = 3 -> "Level_2_Expr"
      [] lvl = 4 -> "Level_4_Expr"
      [] lvl = 5 -> "And_Operand"
      [] lvl = 6 -> "Or_Operand"

\* The levels of the left and right operand of a binary operator of level lvl:
\* The power operator associates to the right, the relational operators do not associate,
\* the others associate to the left.
LhsLevel(lvl) == CASE lvl = 1 -> 0 [] lvl = 4 -> 3 [] OTHER -> lvl
RhsLevel(lvl) == CASE lvl = 1 -> 1 [] lvl = 4 -> 3 [] OTHER -> lvl - 1

UnaryClass(lvl) == IF lvl = 3 THEN "Level_2_Unary_Expr" ELSE LevelClass(lvl)

\* The parse trees of level lvl or below with at most n operator nodes.
RECURSIVE ExprTrees(_, _, _)
ExprTrees(g, lvl, n) ==
    IF lvl = 0
    THEN {Leaf("Name", x) : x \in g.names}
         \cup {Leaf("Int_Literal_Constant", x) : x \in g.lits}
         \cup (IF n = 0 THEN {}
               ELSE {PNode("Parenthesis", "", <<e>>) : e \in ExprTrees(g, TopLevel, n - 1)})
    ELSE ExprTrees(g, lvl - 1, n)
         \cup (IF n = 0 THEN {}
               ELSE UNION {
                      {PNode(LevelClass(lvl), op, <<l, r>>) :
                           op \in g.bin[lvl],
                           l \in ExprTrees(g, LhsLevel(lvl), k),
                           r \in ExprTrees(g, RhsLevel(lvl), n - 1 - k)} :
                      k \in 0 .. (n - 1)}
                    \cup {PNode(UnaryClass(lvl), op, <<e>>) :
                           op \in g.un[lvl], e \in ExprTrees(g, lvl - 1, n - 1)})

ArithGrammar ==
    [names |-> {"a", "b"}, lits |-> {"0", "1"},
     bin |-> <<{}, {"*"}, {"+", "-"}, {}, {}, {}>>,
     un |-> <<{}, {}, {"-"}, {}, {}, {}>>]

MixedGrammar ==
    [names |-> {"a", "b"}, lits |-> {},
     bin |-> <<{"**"}, {"*", "/"}, {"+"}, {"=="}, {}, {".AND."}>>,
     un |-> <<{}, {}, {}, {}, {".NOT."}, {}>>]

(***************************************************************************)
(* The state machine.                                                      *)
(***************************************************************************)
RootScope == 1

\* The scope object handed to the lowering, as the tables stand.
ActiveScope == ScopeOf(scope, [symbols |-> symbols, parents |-> parents])

\* The lowering has returned res: its result, or its exception, is recorded
\* with the tables and the log it left.
returned(res) ==
    /\ IF Failed(res)
       THEN /\ ir' = None
            /\ exc' = res.r.n
            /\ pc' = "failed"
       ELSE /\ ir' = res.r
            /\ exc' = NoExc
            /\ pc' = "lowered"
    /\ symbols' = res.symbols
    /\ parents' = res.parents
    /\ warnings' = res.warnings

\* parse_fparser_ast: FParser2IR(raw_source, definitions, scope).visit(ast)
parse_fparser_ast ==
    /\ pc = "parsed"
    /\ returned(visit_stmt(ast, scope, [r |-> None, symbols |-> symbols,
                                        parents |-> parents, warnings |-> warnings]))
    /\ UNCHANGED <<strict, ast, scope, definitions, text, retrieved, stack, calls, depth, self>>

\* Stringifier.visit on an expression: self.symgen(expr), the mapper applied
\* with no enclosing precedence.
symgen ==
    /\ pc = "lowered"
    /\ LET t == rec(ir, PREC_NONE)
       IN  IF HasRaise(t)
           THEN /\ text' = <<>>
                /\ exc' = "IndexError"
                /\ pc' = "failed"
           ELSE /\ text' = t
                /\ exc' = NoExc
                /\ pc' = "printed"
    /\ UNCHANGED <<strict, ast, symbols, parents, scope, definitions, ir, warnings,
                   retrieved, stack, calls, depth, self>>

\* Arithmetic expressions, lowered and then rendered by the streaming backend.
InitExpr ==
    /\ strict = FALSE
    /\ ast \in ExprTrees(ArithGrammar, TopLevel, MaxArithOps)
    /\ symbols = <<EmptyTable>>
    /\ parents = <<NoScope>>
    /\ scope = RootScope
    /\ definitions = NoDefinitions
    /\ ir = None
    /\ exc = NoExc
    /\ warnings = 0
    /\ text = <<>>
    /\ retrieved = <<>>
    /\ stack = <<>>
    /\ calls = <<>>
    /\ depth = 0
    /\ self = NoInstance
    /\ pc = "parsed"

NextExpr == parse_fparser_ast \/ symgen

SpecExpr == InitExpr /\ [][NextExpr]_vars

\* Expressions of every operation kind, lowered.
InitParen ==
    /\ strict = FALSE
    /\ ast \in ExprTrees(MixedGrammar, TopLevel, MaxParenOps)
    /\ symbols = <<EmptyTable>>
    /\ parents = <<NoScope>>
    /\ scope = RootScope
    /\ definitions = NoDefinitions
    /\ ir = None
    /\ exc = NoExc
    /\ warnings = 0
    /\ text = <<>>
    /\ retrieved = <<>>
    /\ stack = <<>>
    /\ calls = <<>>
    /\ depth = 0
    /\ self = NoInstance
    /\ pc = "parsed"

NextParen == parse_fparser_ast

SpecParen == InitParen /\ [][NextParen]_vars

(***************************************************************************)
(* References and derived-type definitions lowered in a routine scope (2)  *)
(* or in the module scope (1) that encloses it.                            *)
(***************************************************************************)
ModuleScope == 1
RoutineScope == 2

\* What a table may hold for a name before the lowering.
Bindings(name) ==
    {Unbound, SymbolAttributes("INTEGER"), SymbolAttributes("DEFERRED"),
     [SymbolAttributes("REAL") EXCEPT !.shape = Tuple(<<Expr("IntLiteral", "4", <<>>)>>)],
     ProcedureType(name, TRUE), DerivedType("t", None)}

\* Sequences of at most n elements of S, without repetition.
RECURSIVE SeqsNoRep(_, _)
SeqsNoRep(S, n) ==
    IF n = 0 THEN {<<>>}
    ELSE LET shorter == SeqsNoRep(S, n - 1)
         IN  shorter \cup UNION {{Append(q, x) : x \in S \ {q[i] : i \in DOMAIN q}} :
                                     q \in {q \in shorter : Len(q) = n - 1}}

Subscripts == {Leaf("Int_Literal_Constant", "1"), Leaf("Int_Literal_Constant", "2")}

\* foo(1): Part_Ref(Name, Section_Subscript_List)
PartRefs ==
    {PNode("Part_Ref", "", <<Leaf("Name", n), PNode("Section_Subscript_List", "", subs)>>) :
        n \in {"foo", "bar"},
        subs \in SeqsNoRep(Subscripts, MaxSubscripts) \ {<<>>}}

\* <type> :: <name>, a component of a derived type
ComponentDef(type, name) ==
    PNode("Data_Component_Def_Stmt", "",
          <<PNode("Intrinsic_Type_Spec", type, <<PyNone>>), PyNone,
            PNode("Component_Decl_List", "",
                  <<PNode("Component_Decl", "", <<Leaf("Name", name), PyNone, PyNone, PyNone>>)>>)>>)

FieldNames == {"foo", "bar", "baz"}
FieldTypes == {"INTEGER", "REAL"}

\* [! comment]  TYPE name / components / END TYPE
TypeDefs ==
    {PNode("Derived_Type_Def", "",
           pre \o <<PNode("Derived_Type_Stmt", "", <<PyNone, Leaf("Type_Name", name), PyNone>>)>>
               \o (IF fields = <<>> THEN <<>>
                   ELSE <<PNode("Component_Part", "",
                                [i \in DOMAIN fields |->
                                    ComponentDef(IF i = 1 THEN first ELSE "INTEGER", fields[i])])>>)
               \o <<Leaf("End_Type_Stmt", name)>>) :
        pre \in {<<>>, <<Leaf("Comment", "! c")>>},
        name \in {"t", "foo"},
        first \in FieldTypes,
        fields \in SeqsNoRep(FieldNames, MaxFields)}

InitScope ==
    /\ strict = FALSE
    /\ ast \in PartRefs \cup TypeDefs
    /\ \E m, r \in Bindings("foo"), b \in {Unbound, SymbolAttributes("INTEGER")} :
          symbols = <<[EmptyTable EXCEPT !["foo"] = m, !["bar"] = b],
                      [EmptyTable EXCEPT !["foo"] = r]>>
    /\ parents = <<NoScope, ModuleScope>>
    /\ scope \in {ModuleScope, RoutineScope}
    /\ definitions = NoDefinitions
    /\ ir = None
    /\ exc = NoExc
    /\ warnings = 0
    /\ text = <<>>
    /\ retrieved = <<>>
    /\ stack = <<>>
    /\ calls = <<>>
    /\ depth = 0
    /\ self = NoInstance
    /\ pc = "parsed"

NextScope == parse_fparser_ast

SpecScope == InitScope /\ [][NextScope]_vars

(***************************************************************************)
(* Block constructs: a construct node holds, as one flat list of siblings, *)
(* its leading comments, its start marker, its bodies separated by branch  *)
(* markers and its end marker.  A sibling after the end marker is what the *)
(* handlers assert against.                                                *)
(***************************************************************************)
Stmt(i, j) == Leaf("Write_Stmt", "WRITE " \o ToString(i) \o "_" \o ToString(j))
Cond(i) == Leaf("Name", "c" \o ToString(i))

\* IF (n) THEN / ELSE IF (m) THEN / WRITE / END IF, as a statement of a body
NestedIf ==
    PNode("If_Construct", "",
          <<PNode("If_Then_Stmt", "", <<Leaf("Name", "n")>>),
            PNode("Else_If_Stmt", "", <<Leaf("Name", "m")>>),
            Leaf("Write_Stmt", "WRITE n"),
            Leaf("End_If_Stmt", "END IF")>>)

\* The body of branch i: size statements, or the nested construct for size -1.
Body(i, size) == IF size = -1 THEN <<NestedIf>> ELSE [j \in 1..size |-> Stmt(i, j)]

BodySizes == -1..MaxBody

\* The branches i..Len(sizes): the first opens with IF, the others with ELSE IF.
RECURSIVE Branches(_, _)
Branches(sizes, i) ==
    IF i > Len(sizes) THEN <<>>
    ELSE <<PNode(IF i = 1 THEN "If_Then_Stmt" ELSE "Else_If_Stmt", "", <<Cond(i)>>)>>
         \o Body(i, sizes[i]) \o Branches(sizes, i + 1)

Leading == {<<>>, <<Leaf("Comment", "! before")>>}
Trailing == {<<>>, <<Leaf("Comment", "! after")>>}

\* sizes[i] is the body of branch i; else_size is -2 without an ELSE branch.
IfConstructs ==
    {PNode("If_Construct", "",
           pre \o Branches(sizes, 1)
               \o (IF else_size = -2 THEN <<>>
                   ELSE <<Leaf("Else_Stmt", "ELSE")>> \o Body(0, else_size))
               \o <<Leaf("End_If_Stmt", "END IF")>> \o post) :
        pre \in Leading, post \in Trailing,
        sizes \in UNION {[1..n -> BodySizes] : n \in 1..MaxBranches},
        else_size \in {-2} \cup BodySizes}

CaseSelectors ==
    {PNode("Case_Selector", "", <<PyNone>>),
     PNode("Case_Selector", "",
           <<PNode("Case_Value_Range_List", "", <<Leaf("Int_Literal_Constant", "1")>>)>>),
     PNode("Case_Selector", "",
           <<PNode("Case_Value_Range_List", "", <<Leaf("Int_Literal_Constant", "2")>>)>>)}

RECURSIVE Cases(_, _)
Cases(sels, i) ==
    IF i > Len(sels) THEN <<>>
    ELSE <<PNode("Case_Stmt", "", <<sels[i]>>), Stmt(i, 1)>> \o Cases(sels, i + 1)

\* SELECT CASE (x) / CASE ... / WRITE / END SELECT
CaseConstructs ==
    {PNode("Case_Construct", "",
           pre \o <<PNode("Select_Case_Stmt", "", <<Leaf("Name", "x")>>)>> \o Cases(sels, 1)
               \o <<Leaf("End_Select_Stmt", "END SELECT")>> \o post) :
        pre \in Leading, post \in Trailing,
        sels \in SeqsNoRep(CaseSelectors, MaxBranches) \ {<<>>}}

Selectors ==
    {Leaf("Name", "foo"),
     PNode("Level_2_Expr", "+", <<Leaf("Name", "foo"), Leaf("Int_Literal_Constant", "1")>>),
     PNode("Part_Ref", "", <<Leaf("Name", "bar"),
                             PNode("Section_Subscript_List", "",
                                   <<Leaf("Int_Literal_Constant", "1")>>)>>)}

\* ASSOCIATE (baz => selector) / WRITE / END ASSOCIATE
AssociateConstructs ==
    {PNode("Associate_Construct", "",
           pre \o <<PNode("Associate_Stmt", "",
                          <<Str("ASSOCIATE"),
                            PNode("Association_List", "",
                                  <<PNode("Association", "",
                                          <<Leaf("Name", "baz"), Str("=>"), sel>>)>>)>>)>>
               \o Body(1, size)
               \o <<Leaf("End_Associate_Stmt", "END ASSOCIATE")>> \o post) :
        pre \in Leading, post \in Trailing, sel \in Selectors, size \in 0..MaxBody}

\* INTERFACE [spec] / MODULE PROCEDURE ... / END INTERFACE
InterfaceBlocks ==
    {PNode("Interface_Block", "",
           pre \o <<PNode("Interface_Stmt", "", <<spec>>)>>
               \o [j \in 1..size |-> Leaf("Procedure_Stmt", "MODULE PROCEDURE p" \o ToString(j))]
               \o <<Leaf("End_Interface_Stmt", "END INTERFACE")>> \o post) :
        pre \in Leading, post \in Trailing,
        spec \in {PyNone, Str("ABSTRACT"), Leaf("Generic_Spec", "foo")},
        size \in 0..MaxBody}

\* Operations whose operator token may be one create_operation does not know.
OperatorTokens == {"+", ".EQV.", ".XOR.", "%"}

Operations ==
    {PNode(IF op = "+" THEN "Level_2_Expr" ELSE "Level_5_Expr", op,
           <<Leaf("Name", "foo"), Leaf("Name", "bar")>>) : op \in OperatorTokens}
    \cup {PNode("Assignment_Stmt", "=",
                <<Leaf("Name", "baz"),
                  PNode(IF op = "+" THEN "Level_2_Expr" ELSE "Level_5_Expr", op,
                        <<Leaf("Name", "foo"), Leaf("Name", "bar")>>)>>) :
             op \in OperatorTokens}

InitBlock ==
    /\ strict \in BOOLEAN
    /\ ast \in IfConstructs \cup CaseConstructs \cup AssociateConstructs
               \cup InterfaceBlocks \cup Operations
    /\ symbols = <<[EmptyTable EXCEPT !["foo"] = SymbolAttributes("INTEGER"),
                                      !["bar"] = SymbolAttributes("REAL")]>>
    /\ parents = <<NoScope>>
    /\ scope = RootScope
    /\ definitions = NoDefinitions
    /\ ir = None
    /\ exc = NoExc
    /\ warnings = 0
    /\ text = <<>>
    /\ retrieved = <<>>
    /\ stack = <<>>
    /\ calls = <<>>
    /\ depth = 0
    /\ self = NoInstance
    /\ pc = "parsed"

NextBlock == parse_fparser_ast

SpecBlock == InitBlock /\ [][NextBlock]_vars

(***************************************************************************)
(* Unsupported features: statements that reach a call of warn_or_fail, and *)
(* nodes of classes without a handler, lowered with strict mode on or off. *)
(***************************************************************************)
MaxOnly == 2
MaxOpts == 2

\* The module m as a definition handed to the front end.
KnownModule ==
    [m \in ModuleNames |->
        [known |-> TRUE,
         symbols |-> [EmptyTable EXCEPT !["foo"] = SymbolAttributes("REAL"),
                                        !["bar"] = ProcedureType("bar", FALSE)]]]

\* USE [, INTRINSIC ::] m [, ONLY: names | , baz => foo]
UseStmts ==
    {PNode("Use_Stmt", "", <<nature, IF nature = PyNone THEN PyNone ELSE Str("::"),
                             Leaf("Module_Name", "m"), Str(""), PyNone>>) :
        nature \in {PyNone, Str("INTRINSIC")}}
    \cup {PNode("Use_Stmt", "",
                <<nature, IF nature = PyNone THEN PyNone ELSE Str("::"),
                  Leaf("Module_Name", "m"), Str(", ONLY:"),
                  IF names = <<>> THEN PyNone
                  ELSE PNode("Only_List", "", [i \in DOMAIN names |-> Leaf("Name", names[i])])>>) :
             nature \in {PyNone, Str("INTRINSIC")},
             names \in SeqsNoRep({"foo", "bar"}, MaxOnly)}
    \cup {PNode("Use_Stmt", "",
                <<nature, IF nature = PyNone THEN PyNone ELSE Str("::"),
                  Leaf("Module_Name", "m"), Str(","),
                  PNode("Rename_List", "",
                        <<PNode("Rename", "=>", <<Leaf("Name", "baz"), Leaf("Name", "foo")>>)>>)>>) :
             nature \in {PyNone, Str("INTRINSIC")}}

\* INTEGER, INTEGER(4), CHARACTER(10), CHARACTER*10 and CHARACTER*(10)
TypeSpecs ==
    {PNode("Intrinsic_Type_Spec", "INTEGER", <<PyNone>>),
     PNode("Intrinsic_Type_Spec", "INTEGER",
           <<PNode("Kind_Selector", "",
                   <<Str("("), Leaf("Int_Literal_Constant", "4"), Str(")")>>)>>),
     PNode("Intrinsic_Type_Spec", "CHARACTER",
           <<PNode("Length_Selector", "",
                   <<Str("("), Leaf("Int_Literal_Constant", "10"), Str(")")>>)>>),
     PNode("Intrinsic_Type_Spec", "CHARACTER",
           <<PNode("Length_Selector", "",
                   <<Str("*"), Leaf("Int_Literal_Constant", "10"), PyNone>>)>>),
     PNode("Intrinsic_Type_Spec", "CHARACTER",
           <<PNode("Length_Selector", "",
                   <<Str("*"),
                     PNode("Char_Length", "",
                           <<Str("("), Leaf("Int_Literal_Constant", "10"), Str(")")>>),
                     PyNone>>)>>)}

\* type :: baz  and  type :: baz*5
TypeDeclarations ==
    {PNode("Type_Declaration_Stmt", "",
           <<spec, PyNone,
             PNode("Entity_Decl_List", "",
                   <<PNode("Entity_Decl", "", <<Leaf("Name", "baz"), PyNone, len, PyNone>>)>>)>>) :
        spec \in TypeSpecs, len \in {PyNone, Leaf("Int_Literal_Constant", "5")}}

\* TYPE [, PUBLIC ::] t [(k)] / INTEGER :: foo / END TYPE
AttributedTypeDefs ==
    {PNode("Derived_Type_Def", "",
           <<PNode("Derived_Type_Stmt", "", <<attrs, Leaf("Type_Name", "t"), params>>),
             PNode("Component_Part", "", <<ComponentDef("INTEGER", "foo")>>),
             Leaf("End_Type_Stmt", "t")>>) :
        attrs \in {PyNone, PNode("Type_Attr_Spec_List", "", <<Leaf("Access_Spec", "PUBLIC")>>)},
        params \in {PyNone, PNode("Type_Param_Name_List", "", <<Leaf("Name", "k")>>)}}

AllocOpts ==
    {PNode("Alloc_Opt", "=", <<Str("SOURCE"), Leaf("Name", "bar")>>),
     PNode("Alloc_Opt", "=", <<Str("STAT"), Leaf("Name", "baz")>>)}

\* ALLOCATE([REAL ::] foo(1:2) [, SOURCE=bar] [, STAT=baz])
AllocateStmts ==
    {PNode("Allocate_Stmt", "",
           <<spec,
             PNode("Allocation_List", "",
                   <<PNode("Allocation", "",
                           <<Leaf("Name", "foo"),
                             PNode("Allocate_Shape_Spec_List", "",
                                   <<PNode("Allocate_Shape_Spec", "",
                                           <<Leaf("Int_Literal_Constant", "1"),
                                             Leaf("Int_Literal_Constant", "2")>>)>>)>>)>>),
             IF opts = <<>> THEN PyNone ELSE PNode("Alloc_Opt_List", "", opts)>>) :
        spec \in {PyNone, PNode("Intrinsic_Type_Spec", "REAL", <<PyNone>>)},
        opts \in SeqsNoRep(AllocOpts, MaxOpts)}

\* [PURE] SUBROUTINE foo [(bar)]
SubroutineStmts ==
    {PNode("Subroutine_Stmt", "",
           <<prefix, Leaf("Subroutine_Name", "foo"), args, PyNone>>) :
        prefix \in {PyNone, Leaf("Prefix", "PURE")},
        args \in {PyNone, PNode("Dummy_Arg_List", "", <<Leaf("Name", "bar")>>)}}

\* The classes of fparser that derive from Base and have no handler.
UnhandledClasses ==
    {"Flush_Stmt", "Entry_Stmt", "Import_Stmt", "Char_Length", "Forall_Construct_Stmt",
     "End_Forall_Stmt"}

\* FLUSH 6, ENTRY foo [(bar)], IMPORT, and FORALL (foo) / body / END FORALL
UnhandledNodes ==
    {PNode("Flush_Stmt", "FLUSH", <<Leaf("Int_Literal_Constant", "6")>>),
     PNode("Entry_Stmt", "ENTRY", <<Leaf("Name", "foo"), PyNone, PyNone>>),
     PNode("Entry_Stmt", "ENTRY",
           <<Leaf("Name", "foo"), PNode("Dummy_Arg_List", "", <<Leaf("Name", "bar")>>), PyNone>>),
     PNode("Import_Stmt", "", <<Str("IMPORT"), PyNone>>)}
    \cup {PNode("Forall_Construct", "",
                <<PNode("Forall_Construct_Stmt", "FORALL", <<PyNone, Leaf("Name", "foo")>>)>>
                \o body
                \o <<PNode("End_Forall_Stmt", "", <<Str("FORALL"), PyNone>>)>>) :
             body \in {<<>>,
                       <<Leaf("Write_Stmt", "WRITE 1")>>,
                       <<PNode("Assignment_Stmt", "=", <<Leaf("Name", "foo"), Leaf("Name", "bar")>>)>>,
                       <<Leaf("Write_Stmt", "WRITE 1"), Leaf("Comment", "! c")>>}}

InitStrict ==
    /\ strict \in BOOLEAN
    /\ ast \in UseStmts \cup TypeDeclarations \cup AttributedTypeDefs \cup AllocateStmts
               \cup SubroutineStmts \cup UnhandledNodes
    /\ symbols = <<[EmptyTable EXCEPT !["foo"] = SymbolAttributes("INTEGER"),
                                      !["bar"] = SymbolAttributes("REAL")]>>
    /\ parents = <<NoScope>>
    /\ scope = RootScope
    /\ definitions \in {NoDefinitions, KnownModule}
    /\ ir = None
    /\ exc = NoExc
    /\ warnings = 0
    /\ text = <<>>
    /\ retrieved = <<>>
    /\ stack = <<>>
    /\ calls = <<>>
    /\ depth = 0
    /\ self = NoInstance
    /\ pc = "parsed"

NextStrict == parse_fparser_ast

SpecStrict == InitStrict /\ [][NextStrict]_vars

(***************************************************************************)
(* Imports: USE statements lowered in a module scope or in the scope of a  *)
(* routine of that module, with the module named known or not.             *)
(***************************************************************************)
\* The symbol tables the module m may come with.
ModuleTables ==
    {[EmptyTable EXCEPT !["foo"] = f, !["bar"] = b] :
        f \in {Unbound, SymbolAttributes("REAL"), ProcedureType("foo", TRUE)},
        b \in {Unbound, SymbolAttributes("INTEGER")}}

Definitions ==
    {NoDefinitions}
    \cup {[m \in ModuleNames |-> [known |-> TRUE, symbols |-> t]] : t \in ModuleTables}

\* The names of the ONLY list of a USE statement.
OnlyNames(o) ==
    IF o.ch[4] = Str(", ONLY:") /\ o.ch[5] # PyNone
    THEN {o.ch[5].ch[i].s : i \in DOMAIN o.ch[5].ch}
    ELSE {}

\* A USE statement of a program that compiles names, in its ONLY list, symbols
\* that the module has.
InitImport ==
    /\ strict \in BOOLEAN
    /\ ast \in UseStmts
    /\ definitions \in Definitions
    /\ definitions[ast.ch[3].s].known =>
          \A n \in OnlyNames(ast) : definitions[ast.ch[3].s].symbols[n] # Unbound
    /\ \E f \in {Unbound, SymbolAttributes("INTEGER")},
          g \in {Unbound, SymbolAttributes("DEFERRED")},
          b \in {Unbound, SymbolAttributes("REAL")} :
          symbols = <<[EmptyTable EXCEPT !["foo"] = f, !["baz"] = SymbolAttributes("INTEGER")],
                      [EmptyTable EXCEPT !["foo"] = g, !["bar"] = b]>>
    /\ parents = <<NoScope, ModuleScope>>
    /\ scope \in {ModuleScope, RoutineScope}
    /\ ir = None
    /\ exc = NoExc
    /\ warnings = 0
    /\ text = <<>>
    /\ retrieved = <<>>
    /\ stack = <<>>
    /\ calls = <<>>
    /\ depth = 0
    /\ self = NoInstance
    /\ pc = "parsed"

NextImport == parse_fparser_ast

SpecImport == InitImport /\ [][NextImport]_vars

(***************************************************************************)
(* Declarations: one type declaration statement for one or more names,     *)
(* lowered in a module scope or in the scope of a routine of that module.  *)
(***************************************************************************)
MaxEntities == 2

\* ( [lo:] up )
ArraySpec(up) ==
    PNode("Explicit_Shape_Spec_List", "",
          <<PNode("Explicit_Shape_Spec", "", <<PyNone, Leaf("Int_Literal_Constant", up)>>)>>)

\* name [(5)] [= 1]
EntityDecls(name) ==
    {PNode("Entity_Decl", "", <<Leaf("Name", name), shape, PyNone, init>>) :
        shape \in {PyNone, ArraySpec("5")},
        init \in {PyNone, PNode("Initialization", "", <<Str("="), Leaf("Int_Literal_Constant", "1")>>)}}

\* The entity lists over the names ns, in that order.
RECURSIVE EntityLists(_)
EntityLists(ns) ==
    IF ns = <<>> THEN {<<>>}
    ELSE {<<e>> \o rest : e \in EntityDecls(Head(ns)), rest \in EntityLists(Tail(ns))}

DimensionAttr == PNode("Dimension_Attr_Spec", "", <<Str("DIMENSION"), ArraySpec("10")>>)
IntentAttr == PNode("Intent_Attr_Spec", "", <<Str("INTENT"), Leaf("Intent_Spec", "IN")>>)

\* The attribute lists of a declaration that is not of an external procedure.
AttrLists ==
    {<<>>, <<DimensionAttr>>, <<IntentAttr>>, <<IntentAttr, DimensionAttr>>,
     <<Leaf("Attr_Spec", "PARAMETER")>>}

DeclaredNames == {"foo", "bar", "baz"}

\* type [, attributes] :: entities
Declarations(attr_lists) ==
    {PNode("Type_Declaration_Stmt", "",
           <<PNode("Intrinsic_Type_Spec", type, <<PyNone>>),
             IF attrs = <<>> THEN PyNone ELSE PNode("Attr_Spec_List", "", attrs),
             PNode("Entity_Decl_List", "", ents)>>) :
        type \in {"INTEGER", "REAL"},
        attrs \in attr_lists,
        ents \in UNION {EntityLists(ns) : ns \in SeqsNoRep(DeclaredNames, MaxEntities) \ {<<>>}}}

InitDecl ==
    /\ strict = FALSE
    /\ ast \in Declarations(AttrLists)
    /\ \E f \in {Unbound, [SymbolAttributes("REAL") EXCEPT !.intent = "out"]} :
          symbols = <<[EmptyTable EXCEPT !["foo"] = SymbolAttributes("INTEGER")],
                      [EmptyTable EXCEPT !["foo"] = f]>>
    /\ parents = <<NoScope, ModuleScope>>
    /\ scope \in {ModuleScope, RoutineScope}
    /\ definitions = NoDefinitions
    /\ ir = None
    /\ exc = NoExc
    /\ warnings = 0
    /\ text = <<>>
    /\ retrieved = <<>>
    /\ stack = <<>>
    /\ calls = <<>>
    /\ depth = 0
    /\ self = NoInstance
    /\ pc = "parsed"

NextDecl == parse_fparser_ast

SpecDecl == InitDecl /\ [][NextDecl]_vars

(***************************************************************************)
(* External procedures: names given the EXTERNAL attribute by a type       *)
(* declaration or by an EXTERNAL statement, declared before or not.        *)
(***************************************************************************)
ExternalNames == {"foo", "bar"}

\* type, EXTERNAL :: names
ExternalDeclarations ==
    {PNode("Type_Declaration_Stmt", "",
           <<PNode("Intrinsic_Type_Spec", type, <<PyNone>>),
             PNode("Attr_Spec_List", "", <<Leaf("Attr_Spec", "EXTERNAL")>>),
             PNode("Entity_Decl_List", "",
                   [i \in DOMAIN ns |->
                       PNode("Entity_Decl", "", <<Leaf("Name", ns[i]), PyNone, PyNone, PyNone>>)])>>) :
        type \in {"INTEGER", "REAL"},
        ns \in SeqsNoRep(ExternalNames, MaxEntities) \ {<<>>}}

\* EXTERNAL names
ExternalStmts ==
    {PNode("External_Stmt", "",
           <<Str("EXTERNAL"),
             PNode("External_Name_List", "", [i \in DOMAIN ns |-> Leaf("Name", ns[i])])>>) :
        ns \in SeqsNoRep(ExternalNames, MaxEntities) \ {<<>>}}

\* What the tables may hold for a name that was declared before.
Declared == {Unbound, SymbolAttributes("REAL"), SymbolAttributes("INTEGER")}

InitExternal ==
    /\ strict = FALSE
    /\ ast \in ExternalDeclarations \cup ExternalStmts
    /\ \E mf, rf, rb \in Declared :
          symbols = <<[EmptyTable EXCEPT !["foo"] = mf],
                      [EmptyTable EXCEPT !["foo"] = rf, !["bar"] = rb]>>
    /\ parents = <<NoScope, ModuleScope>>
    /\ scope \in {ModuleScope, RoutineScope}
    /\ definitions = NoDefinitions
    /\ ir = None
    /\ exc = NoExc
    /\ warnings = 0
    /\ text = <<>>
    /\ retrieved = <<>>
    /\ stack = <<>>
    /\ calls = <<>>
    /\ depth = 0
    /\ self = NoInstance
    /\ pc = "parsed"

NextExternal == parse_fparser_ast

SpecExternal == InitExternal /\ [][NextExternal]_vars

(***************************************************************************)
(* Backends: the streaming backend (MaxjCodegen) and the Python backend    *)
(* (PyCodegen) applied to one IR node.  The type of a variable is its      *)
(* entry in the scope; a streaming value has the flag dfevar.  A text is   *)
(* a sequence of tokens in which every line ends with the token "\n".      *)
(***************************************************************************)
\* Stringifier.format_line and join_lines
format_line(items) == items \o <<"\n">>
RECURSIVE join_lines(_)
join_lines(lines) == IF lines = <<>> THEN <<>> ELSE Head(lines) \o join_lines(Tail(lines))

\* var.type: the entry of the variable in its scope.
TypeOf(var) == lookup(ActiveScope, var.n)

\* The truth value of a shape: unset and () are false.
IsNonScalar(shape) == shape # None /\ Len(shape.ch) > 0

\* PyCodeMapper on the expressions of the model: names and literals as they
\* are, a sum with its operands joined by +.
RECURSIVE py_rec(_, _)
py_rec(expr, enclosing_prec) ==
    CASE expr.k = "Variable" -> <<expr.n>>
      [] expr.k = "IntLiteral" -> <<expr.n>>
      [] expr.k = "Sum" ->
            parenthesize_if_needed(
                py_rec(expr.ch[1], PREC_SUM) \o <<"+">> \o py_rec(expr.ch[2], PREC_SUM),
                enclosing_prec, PREC_SUM)
      [] OTHER -> <<"<" \o expr.k \o ">">>

maxj_local_type(_type) ==
    CASE _type.dtype = "DEFERRED" -> _type.name
      [] _type.dtype = "LOGICAL" -> "boolean"
      [] _type.dtype = "INTEGER" -> "int"
      [] _type.dtype = "REAL" -> "double"
      [] OTHER -> "!ValueError"

\* MaxjCodegen.visit_SymbolType
RECURSIVE visit_SymbolType(_)
visit_SymbolType(o) ==
    IF o.dtype = "DERIVED" THEN "DFEStructType " \o o.name
    ELSE IF "dfevar" \in o.flags
    THEN IF IsNonScalar(o.shape)
         THEN "DFEVector<"
                  \o visit_SymbolType([o EXCEPT !.shape =
                         Tuple(SubSeq(o.shape.ch, 1, Len(o.shape.ch) - 1))])
                  \o ">"
         ELSE "DFEVar"
    ELSE maxj_local_type(o)

\* MaxjCodegen.visit_Statement that tells a streaming target by dfevar alone.
maxj_visit_Statement_any_dfevar(o) ==
    IF "dfevar" \in TypeOf(o.ch[1]).flags
    THEN format_line(rec(o.ch[1], PREC_NONE) \o <<"<==">> \o rec(o.ch[2], PREC_NONE) \o <<";">>)
    ELSE format_line(rec(o.ch[1], PREC_NONE) \o <<"=">> \o rec(o.ch[2], PREC_NONE) \o <<";">>)

\* MaxjCodegen.visit_Statement: o.ch = <<target, expr>>, without a comment
maxj_visit_Statement(o) ==
    IF "dfevar" \in TypeOf(o.ch[1]).flags /\ IsNonScalar(TypeOf(o.ch[1]).shape)
    THEN format_line(rec(o.ch[1], PREC_NONE) \o <<"<==">> \o rec(o.ch[2], PREC_NONE) \o <<";">>)
    ELSE format_line(rec(o.ch[1], PREC_NONE) \o <<"=">> \o rec(o.ch[2], PREC_NONE) \o <<";">>)

\* PyCodegen.visit_Statement
py_visit_Statement(o) ==
    format_line(py_rec(o.ch[1], PREC_NONE) \o <<"=">> \o py_rec(o.ch[2], PREC_NONE))

\* format_declaration of MaxjCodegen.visit_Declaration
format_declaration(var) ==
    IF TypeOf(var).initial # None
    THEN format_line(<<visit_SymbolType(TypeOf(var)), var.n, "=">>
                         \o rec(TypeOf(var).initial, PREC_NONE) \o <<";">>)
    ELSE format_line(<<visit_SymbolType(TypeOf(var)), var.n, ";">>)

NotByReference(var) == TypeOf(var).intent = "" \/ "dfevar" \in TypeOf(var).flags
HasInitial(var) == TypeOf(var).initial # None

\* [format_declaration(var) for var in o.variables]
RECURSIVE all_declarations(_)
all_declarations(variables) ==
    IF variables = <<>> THEN <<>>
    ELSE <<format_declaration(Head(variables))>> \o all_declarations(Tail(variables))

\* [format_declaration(var) for var in o.variables
\*  if not var.type.intent or var.type.dfevar]
RECURSIVE maxj_declarations(_)
maxj_declarations(variables) ==
    IF variables = <<>> THEN <<>>
    ELSE (IF NotByReference(Head(variables)) THEN <<format_declaration(Head(variables))>>
          ELSE <<>>)
         \o maxj_declarations(Tail(variables))

\* MaxjCodegen.visit_Declaration that declares every variable.
maxj_visit_Declaration_unfiltered(o) == join_lines(all_declarations(o.ch[1].ch))

\* MaxjCodegen.visit_Declaration: o.ch = <<variables, dimensions>>, no comment
maxj_visit_Declaration(o) == join_lines(maxj_declarations(o.ch[1].ch))

\* [format_line(v.name.lower(), ' = ', visit(v.initial)) for v in o.variables
\*  if v.initial is not None]
RECURSIVE py_declarations(_)
py_declarations(variables) ==
    IF variables = <<>> THEN <<>>
    ELSE (IF HasInitial(Head(variables))
          THEN <<format_line(<<lower(Head(variables).n), "=">>
                                 \o py_rec(TypeOf(Head(variables)).initial, PREC_NONE))>>
          ELSE <<>>)
         \o py_declarations(Tail(variables))

\* PyCodegen.visit_Declaration
py_visit_Declaration(o) == join_lines(py_declarations(o.ch[1].ch))

(***************************************************************************)
(* The emitters of the three backends (FortranCodegen, MaxjCodegen,        *)
(* PyCodegen) as they walk a tree of IR nodes.  An emitter is              *)
(* [r, depth, lines, calls]: r holds the exception that ended the walk, if *)
(* any, depth is self._depth (self.depth of a Stringifier), lines are the  *)
(* lines formatted so far, each with the depth it was indented by, the     *)
(* node it belongs to and its part in the template of the node (header,    *)
(* footer, the one line of an inline IF), and calls log the                *)
(* depth at which each handler was entered and left.  A node is addressed  *)
(* by its path from the root.                                              *)
(***************************************************************************)
Emitter(d) == [r |-> None, depth |-> d, lines |-> <<>>, calls |-> <<>>]

\* self.depth += by, and self._depth = d
incr(st, by) == [st EXCEPT !.depth = @ + by]
set_depth(st, d) == [st EXCEPT !.depth = d]

\* self.format_line(...) and self.indent + ...: a line at the depth of the
\* emitter; a text written without self.indent starts at the margin.
emit(st, role, p) ==
    [st EXCEPT !.lines = Append(@, [role |-> role, path |-> p, depth |-> st.depth])]
emit_flush(st, role, p) ==
    [st EXCEPT !.lines = Append(@, [role |-> role, path |-> p, depth |-> 0])]

\* A handler is entered for the node of class k at p, and returns.
entered(st, k, p) ==
    [st EXCEPT !.calls = Append(@, [ev |-> "enter", k |-> k, path |-> p, depth |-> st.depth])]
exited(st, k, p) ==
    [st EXCEPT !.calls = Append(@, [ev |-> "exit", k |-> k, path |-> p, depth |-> st.depth])]

\* The IR nodes the backends read: a Conditional with its conditions, its
\* bodies, one for each condition, and its else body; a routine with its
\* spec, body and members; a module with its spec and routines.
BranchedConditional(conditions, bodies, else_body, inline) ==
    Expr("Conditional", IF inline THEN "inline" ELSE "", <<Tuple(conditions), Tuple(bodies), else_body>>)
Routine(name, spec, body, members) ==
    [k |-> "Subroutine", name |-> name, members |-> members, spec |-> spec, body |-> body]
ModuleWithSpec(name, spec, subroutines) ==
    [k |-> "Module", name |-> name, subroutines |-> subroutines, spec |-> spec]
Section(body) == Expr("Section", "", <<Tuple(body)>>)

RECURSIVE visit_node(_, _, _, _)

\* [self.visit(i) for i in items], the i-th item being at p \o <<i>>
RECURSIVE visit_all(_, _, _, _, _)
visit_all(cls, items, p, i, st) ==
    IF i > Len(items) THEN st
    ELSE Then(visit_node(cls, items[i], p \o <<i>>, st), LAMBDA s :
         visit_all(cls, items, p, i + 1, s))

\* visit_tuple of the three backends
visit_tuple(cls, o, p, st) == visit_all(cls, o.ch, p, 1, st)

\* visit_Section of the three backends
visit_Section(cls, o, p, st) == visit_node(cls, o.ch[1], p \o <<1>>, st)

\* FortranCodegen.visit_Loop and visit_WhileLoop: the body first, then the
\* header and the footer.
f_visit_Loop(o, p, st) ==
    Then(incr(st, 1), LAMBDA s1 :
    Then(visit_node("FortranCodegen", o.ch[3], p \o <<3>>, s1), LAMBDA body :
    Then(incr(body, -1), LAMBDA s2 :
    emit(emit(s2, "header", p), "footer", p))))

\* FortranCodegen.visit_Conditional
f_visit_Conditional(o, p, st) ==
    IF o.n = "inline"
    THEN Then(assert_stmt(Len(o.ch[1].ch) = 1 /\ Len(flatten(o.ch[2].ch)) = 1, st), LAMBDA a :
         Then(set_depth(st, 0), LAMBDA s1 :
         Then(visit_node("FortranCodegen", flatten(o.ch[2].ch)[1], p \o <<2, 1, 1>>, s1), LAMBDA body :
         Then(set_depth(body, st.depth), LAMBDA s2 :
         emit(s2, "inline", p)))))
    ELSE Then(incr(st, 1), LAMBDA s1 :
         Then(visit_all("FortranCodegen", o.ch[2].ch, p \o <<2>>, 1, s1), LAMBDA bodies :
         Then(visit_node("FortranCodegen", o.ch[3], p \o <<3>>, bodies), LAMBDA else_body :
         Then(incr(else_body, -1), LAMBDA s2 :
         emit(emit(s2, "header", p), "footer", p)))))

\* FortranCodegen.visit_MultiConditional
f_visit_MultiConditional(o, p, st) ==
    Then(incr(st, 1), LAMBDA s1 :
    Then(visit_all("FortranCodegen", o.ch[3].ch, p \o <<3>>, 1, s1), LAMBDA bodies :
    Then(incr(bodies, -1), LAMBDA s2 :
    emit(emit(s2, "header", p), "footer", p))))

\* FortranCodegen.visit_Subroutine: SUBROUTINE and END SUBROUTINE are written
\* at the margin, and the depth is left as it is for the spec, the body and
\* the members.
f_visit_Subroutine(o, p, st) ==
    Then(visit_node("FortranCodegen", o.spec, p \o <<1>>, st), LAMBDA spec :
    Then(visit_node("FortranCodegen", o.body, p \o <<2>>, spec), LAMBDA body :
    Then(visit_all("FortranCodegen", o.members, p \o <<3>>, 1, body), LAMBDA members :
    emit_flush(emit_flush(members, "header", p), "footer", p))))

\* FortranCodegen.visit_Module
f_visit_Module(o, p, st) ==
    Then(visit_all("FortranCodegen", o.subroutines, p \o <<2>>, 1, st), LAMBDA body :
    Then(visit_node("FortranCodegen", o.spec, p \o <<1>>, body), LAMBDA spec :
    emit_flush(emit_flush(spec, "header", p), "footer", p)))

\* MaxjCodegen.visit_Module, with the name of the module telling its kind
maxj_visit_Module(o, p, st) ==
    IF o.name \notin {"fooKernel", "fooManager", "fooManagerMAX5C"}
    THEN Return(Raise("ValueError"), st)
    ELSE Then(emit(st, "header", p), LAMBDA header :
         Then(incr(header, 1), LAMBDA s1 :
         Then(visit_node("MaxjCodegen", o.spec, p \o <<1>>, s1), LAMBDA spec :
         Then(visit_all("MaxjCodegen", o.subroutines, p \o <<2>>, 1, spec), LAMBDA body :
         Then(incr(body, -1), LAMBDA s2 :
         emit(s2, "footer", p))))))

\* MaxjCodegen.visit_Subroutine
maxj_visit_Subroutine(o, p, st) ==
    Then(emit(st, "header", p), LAMBDA header :
    Then(incr(header, 1), LAMBDA s1 :
    Then(visit_node("MaxjCodegen", o.spec, p \o <<1>>, s1), LAMBDA spec :
    Then(visit_node("MaxjCodegen", o.body, p \o <<2>>, spec), LAMBDA body :
    Then(incr(body, -1), LAMBDA s2 :
    emit(s2, "footer", p))))))

\* MaxjCodegen.visit_Loop
maxj_visit_Loop(o, p, st) ==
    Then(emit(emit(st, "header", p), "footer", p), LAMBDA lines :
    Then(incr(lines, 1), LAMBDA s1 :
    Then(visit_node("MaxjCodegen", o.ch[3], p \o <<3>>, s1), LAMBDA body :
    incr(body, -1))))

\* PyCodegen.visit_Subroutine
py_visit_Subroutine(o, p, st) ==
    Then(emit(emit(st, "import", p), "header", p), LAMBDA header :
    Then(incr(header, 1), LAMBDA s1 :
    Then(visit_node("PyCodegen", o.spec, p \o <<1>>, s1), LAMBDA spec :
    Then(visit_node("PyCodegen", o.body, p \o <<2>>, spec), LAMBDA body :
    incr(body, -1)))))

\* cntrl of PyCodegen.visit_Loop: 'range({start}, {end} + {inc}, {inc})' with
\* a step and 'range({start}, {end} + 1)' without, as tokens
loop_range(bounds) ==
    LET start == py_rec(RangeLower(bounds), PREC_NONE)
        end == py_rec(RangeUpper(bounds), PREC_NONE)
    IN IF RangeStep(bounds) # None
       THEN LET inc == py_rec(RangeStep(bounds), PREC_NONE) IN
            <<"range", "(">> \o start \o <<",">> \o end \o <<"+">> \o inc \o <<",">>
            \o inc \o <<")">>
       ELSE <<"range", "(">> \o start \o <<",">> \o end \o <<"+", "1", ")">>

\* The line 'for <var> in <cntrl>:' of a loop, 'while <condition>:' of a
\* while loop
loop_header(o, p, st) ==
    IF o.k = "Loop"
    THEN [st EXCEPT !.lines = Append(@, [role |-> "header", path |-> p, depth |-> st.depth,
                                          cntrl |-> loop_range(o.ch[2])])]
    ELSE emit(st, "header", p)

\* PyCodegen.visit_Loop without the decrement that follows the body.
py_visit_Loop_unbalanced(o, p, st) ==
    Then(loop_header(o, p, st), LAMBDA header :
    Then(incr(header, 1), LAMBDA s1 :
    visit_node("PyCodegen", o.ch[3], p \o <<3>>, s1)))

\* PyCodegen.visit_Loop and visit_WhileLoop
py_visit_Loop(o, p, st) ==
    Then(loop_header(o, p, st), LAMBDA header :
    Then(incr(header, 1), LAMBDA s1 :
    Then(visit_node("PyCodegen", o.ch[3], p \o <<3>>, s1), LAMBDA body :
    incr(body, -1))))

\* The lines if <condition>: / elif <condition>: / else:
RECURSIVE emit_each(_, _, _, _)
emit_each(st, role, p, n) ==
    IF n = 0 THEN st ELSE emit_each(emit(st, role, p), role, p, n - 1)

\* PyCodegen.visit_Conditional
py_visit_Conditional(o, p, st) ==
    Then(emit_each(st, "header", p, Len(o.ch[1].ch)), LAMBDA conditions :
    Then(IF o.ch[3].ch # <<>> THEN emit(conditions, "header", p) ELSE conditions, LAMBDA header :
    Then(incr(header, 1), LAMBDA s1 :
    Then(visit_all("PyCodegen", o.ch[2].ch \o <<o.ch[3]>>, p \o <<2>>, 1, s1), LAMBDA bodies :
    incr(bodies, -1)))))

\* The handler the dispatch of the visitor finds for a node of class o.k in
\* the codegen class cls; a class without a handler of its own is formatted
\* by visit_Node as one line.
handler(cls, o, p, st) ==
    CASE o.k = "tuple" -> visit_tuple(cls, o, p, st)
      [] o.k = "Section" -> visit_Section(cls, o, p, st)
      [] o.k = "Intrinsic" /\ cls = "FortranCodegen" -> emit_flush(st, "line", p)
      [] o.k \in {"Loop", "WhileLoop"} /\ cls = "FortranCodegen" -> f_visit_Loop(o, p, st)
      [] o.k = "Conditional" /\ cls = "FortranCodegen" -> f_visit_Conditional(o, p, st)
      [] o.k = "MultiConditional" /\ cls = "FortranCodegen" -> f_visit_MultiConditional(o, p, st)
      [] o.k = "Subroutine" /\ cls = "FortranCodegen" -> f_visit_Subroutine(o, p, st)
      [] o.k = "Module" /\ cls = "FortranCodegen" -> f_visit_Module(o, p, st)
      [] o.k = "Loop" /\ cls = "MaxjCodegen" -> maxj_visit_Loop(o, p, st)
      [] o.k = "Subroutine" /\ cls = "MaxjCodegen" -> maxj_visit_Subroutine(o, p, st)
      [] o.k = "Module" /\ cls = "MaxjCodegen" -> maxj_visit_Module(o, p, st)
      [] o.k \in {"Loop", "WhileLoop"} /\ cls = "PyCodegen" -> py_visit_Loop(o, p, st)
      [] o.k = "Conditional" /\ cls = "PyCodegen" -> py_visit_Conditional(o, p, st)
      [] o.k = "Subroutine" /\ cls = "PyCodegen" -> py_visit_Subroutine(o, p, st)
      [] o.k = "Module" /\ cls = "PyCodegen" -> Return(Raise("NotImplementedError"), st)
      [] OTHER -> emit(st, "line", p)

\* Visitor.visit: the handler is called and returns.
visit_node(cls, o, p, st) ==
    Then(handler(cls, o, p, entered(st, o.k, p)), LAMBDA s : exited(s, o.k, p))

\* The block nodes a backend writes through a handler of its own.
BlockClasses == {"Loop", "WhileLoop", "Conditional", "MultiConditional", "Subroutine", "Module"}

\* A backend has walked ir: its lines, the log of its handlers and the depth
\* it was left with are recorded.
generated(st, done) ==
    /\ text' = st.lines
    /\ calls' = st.calls
    /\ depth' = st.depth
    /\ exc' = IF Failed(st) THEN st.r.n ELSE NoExc
    /\ pc' = IF Failed(st) THEN "failed" ELSE done

\* fgen(ir) = FortranCodegen().visit(ir)
fgen ==
    /\ pc = "lowered"
    /\ ir.k \in BlockClasses
    /\ generated(visit_node("FortranCodegen", ir, <<>>, Emitter(0)), "fortran")
    /\ UNCHANGED <<strict, ast, symbols, parents, scope, definitions, ir, warnings,
                   retrieved, stack, self>>

\* maxjgen(ir) = MaxjCodegen().visit(ir)
maxjgen ==
    /\ pc = "lowered"
    /\ ir.k \in {"Statement", "Declaration"} \cup BlockClasses
    /\ IF ir.k \in BlockClasses
       THEN generated(visit_node("MaxjCodegen", ir, <<>>, Emitter(0)), "maxj")
       ELSE /\ text' = IF ir.k = "Statement" THEN maxj_visit_Statement(ir)
                       ELSE maxj_visit_Declaration(ir)
            /\ pc' = "maxj"
            /\ UNCHANGED <<exc, calls, depth>>
    /\ UNCHANGED <<strict, ast, symbols, parents, scope, definitions, ir, warnings,
                   retrieved, stack, self>>

\* pygen(ir) = PyCodegen().visit(ir)
pygen ==
    /\ pc = "lowered"
    /\ ir.k \in {"Statement", "Declaration"} \cup BlockClasses
    /\ IF ir.k \in BlockClasses
       THEN generated(visit_node("PyCodegen", ir, <<>>, Emitter(0)), "python")
       ELSE /\ text' = IF ir.k = "Statement" THEN py_visit_Statement(ir)
                       ELSE py_visit_Declaration(ir)
            /\ pc' = "python"
            /\ UNCHANGED <<exc, calls, depth>>
    /\ UNCHANGED <<strict, ast, symbols, parents, scope, definitions, ir, warnings,
                   retrieved, stack, self>>

MaxVariables == 2

\* The types of foo: a streaming value or not, scalar or not, an argument or
\* not, with an initial value or not.
TargetTypes ==
    {[SymbolAttributes(d) EXCEPT !.flags = f, !.shape = sh, !.intent = i, !.initial = init] :
        d \in {"REAL"},
        f \in {{}, {"dfevar"}},
        sh \in {None, Tuple(<<>>), Tuple(<<Expr("IntLiteral", "10", <<>>)>>)},
        i \in {"", "in"},
        init \in {None, Expr("IntLiteral", "1", <<>>)}}

\* The types of bar, a scalar.
ScalarTypes ==
    {[SymbolAttributes("INTEGER") EXCEPT !.flags = f, !.intent = i, !.initial = init] :
        f \in {{}, {"dfevar"}},
        i \in {"", "inout"},
        init \in {None, Expr("IntLiteral", "2", <<>>)}}

\* ir.Statement(target, expr): foo = foo + 1, bar = foo, ...
Statements ==
    {Expr("Statement", "", <<Expr("Variable", target, <<>>), expr>>) :
        target \in {"foo", "bar"},
        expr \in {Expr("IntLiteral", "1", <<>>), Expr("Variable", "foo", <<>>),
                  Expr("Sum", "", <<Expr("Variable", "foo", <<>>), Expr("IntLiteral", "1", <<>>)>>)}}

\* ir.Declaration(variables)
DeclarationNodes ==
    {Expr("Declaration", "", <<Tuple([i \in DOMAIN ns |-> Expr("Variable", ns[i], <<>>)]), None>>) :
        ns \in SeqsNoRep({"foo", "bar", "baz"}, MaxVariables) \ {<<>>}}

\* An IR node, with the types of its variables, is handed to a backend.
InitCodegen ==
    /\ strict = FALSE
    /\ ast = PyNone
    /\ ir \in Statements \cup DeclarationNodes
    /\ \E f \in TargetTypes, b \in ScalarTypes :
          symbols = <<[EmptyTable EXCEPT !["foo"] = f, !["bar"] = b,
                                         !["baz"] = SymbolAttributes("INTEGER")]>>
    /\ parents = <<NoScope>>
    /\ scope = RootScope
    /\ definitions = NoDefinitions
    /\ exc = NoExc
    /\ warnings = 0
    /\ text = <<>>
    /\ retrieved = <<>>
    /\ stack = <<>>
    /\ calls = <<>>
    /\ depth = 0
    /\ self = NoInstance
    /\ pc = "lowered"

NextCodegen == maxjgen \/ pygen

SpecCodegen == InitCodegen /\ [][NextCodegen]_vars

(***************************************************************************)
(* The three retrieve functions, applied to expression trees.              *)
(***************************************************************************)
\* retriever = ExpressionRetriever(query); retriever(expr); retriever.exprs
retrieve(q) ==
    /\ pc = "lowered"
    /\ retrieved' = retriever_rec(ir, q)
    /\ pc' = q
    /\ UNCHANGED <<strict, ast, symbols, parents, scope, definitions, ir, exc, warnings,
                   text, stack, calls, depth, self>>

retrieve_expressions == retrieve("Expression")
retrieve_variables == retrieve("Variable")
retrieve_inline_calls == retrieve("InlineCall")

MaxSearchDepth == 1

SearchLeaves == {Expr("Variable", "foo", <<>>), Expr("IntLiteral", "1", <<>>)}

\* lower:upper:step over the trees ts, the lower bound and the step optional
RangeIndices(ts) ==
    {Expr("RangeIndex", "", <<l, u, st>>) :
        l \in ts \cup {None}, u \in ts, st \in {None, Expr("Variable", "baz", <<>>)}}

\* Trees of nesting depth at most d: an array bar with one subscript or one
\* range, a cast with or without a kind, a call of t, a sum.
RECURSIVE SearchTrees(_)
SearchTrees(d) ==
    IF d = 0 THEN SearchLeaves
    ELSE LET ts == SearchTrees(d - 1)
         IN  ts
             \cup {Expr("Array", "bar", <<x>>) : x \in ts \cup RangeIndices(ts)}
             \cup {Cast("real", <<x>>, kind) :
                      x \in ts, kind \in {None, StrVal("8"), Expr("Variable", "baz", <<>>)}}
             \cup {Expr("InlineCall", "", <<Expr("Variable", "t", <<>>), Tuple(<<x>>), Tuple(<<>>)>>) :
                      x \in ts}
             \cup {Expr("Sum", "", <<x, y>>) : x, y \in ts}

\* An expression tree is handed to one of the three retrieve functions.
InitSearch ==
    /\ strict = FALSE
    /\ ast = PyNone
    /\ symbols = <<EmptyTable>>
    /\ parents = <<NoScope>>
    /\ scope = RootScope
    /\ definitions = NoDefinitions
    /\ ir \in SearchTrees(MaxSearchDepth)
    /\ exc = NoExc
    /\ warnings = 0
    /\ text = <<>>
    /\ retrieved = <<>>
    /\ stack = <<>>
    /\ calls = <<>>
    /\ depth = 0
    /\ self = NoInstance
    /\ pc = "lowered"

NextSearch == retrieve_expressions \/ retrieve_variables \/ retrieve_inline_calls

SpecSearch == InitSearch /\ [][NextSearch]_vars

(***************************************************************************)
(* parse_fparser_expression(source, scope): the source, here the parse     *)
(* tree fparser builds for it, is parsed between parentheses, the          *)
(* expression inside the Parenthesis node is lowered, and the typed        *)
(* symbols of the result are replaced by clones bound to the scope.        *)
(***************************************************************************)
\* Fortran2003.Primary('(' + source + ')'): a Parenthesis node around the parse
\* tree of the source
Primary(source) == PNode("Parenthesis", "", <<source>>)

expression_returned(res) ==
    /\ ir' = IF Failed(res) THEN None ELSE rescope(res.r, scope)
    /\ exc' = IF Failed(res) THEN res.r.n ELSE NoExc
    /\ pc' = IF Failed(res) THEN "failed" ELSE "rescoped"
    /\ symbols' = res.symbols
    /\ parents' = res.parents
    /\ warnings' = res.warnings

parse_fparser_expression ==
    /\ pc = "source"
    /\ expression_returned(visit_stmt(Primary(ast).ch[1], scope,
                                      [r |-> None, symbols |-> symbols,
                                       parents |-> parents, warnings |-> warnings]))
    /\ UNCHANGED <<strict, ast, scope, definitions, text, retrieved, stack, calls, depth, self>>

MaxSourceOps == 2

\* foo, bar, 1, foo(bar), foo(1)
SourcePrimaries ==
    {Leaf("Name", "foo"), Leaf("Name", "bar"), Leaf("Int_Literal_Constant", "1")}
    \cup {PNode("Part_Ref", "", <<Leaf("Name", "foo"), PNode("Section_Subscript_List", "", <<x>>)>>) :
             x \in {Leaf("Name", "bar"), Leaf("Int_Literal_Constant", "1")}}

\* The sources with at most n operations: a sum with a primary, or an
\* expression between parentheses.
RECURSIVE Sources(_)
Sources(n) ==
    IF n = 0 THEN SourcePrimaries
    ELSE Sources(n - 1)
         \cup {PNode("Parenthesis", "", <<e>>) : e \in Sources(n - 1)}
         \cup {PNode("Level_2_Expr", "+", <<l, r>>) : l \in Sources(n - 1), r \in SourcePrimaries}

\* An expression is lowered for a routine scope or for the module scope that
\* encloses it; foo may be a procedure of the module and an array of the
\* routine.
InitSource ==
    /\ strict = FALSE
    /\ ast \in Sources(MaxSourceOps)
    /\ \E m \in {Unbound, ProcedureType("foo", TRUE)},
          r \in {Unbound, [SymbolAttributes("REAL") EXCEPT
                              !.shape = Tuple(<<Expr("IntLiteral", "4", <<>>)>>)]} :
          symbols = <<[EmptyTable EXCEPT !["foo"] = m], [EmptyTable EXCEPT !["foo"] = r]>>
    /\ parents = <<NoScope, ModuleScope>>
    /\ scope \in {ModuleScope, RoutineScope}
    /\ definitions = NoDefinitions
    /\ ir = None
    /\ exc = NoExc
    /\ warnings = 0
    /\ text = <<>>
    /\ retrieved = <<>>
    /\ stack = <<>>
    /\ calls = <<>>
    /\ depth = 0
    /\ self = NoInstance
    /\ pc = "source"

NextSource == parse_fparser_expression

SpecSource == InitSource /\ [][NextSource]_vars

(***************************************************************************)
(* The linter's dispatch: GenericRule.check calls the entry points of a    *)
(* rule for a source file, a module or a subroutine and what they hold.    *)
(* The recursion of check is a stack of the calls still to be made; each   *)
(* action is one call of an entry point.                                   *)
(***************************************************************************)
Subroutine(name, members) == [k |-> "Subroutine", name |-> name, members |-> members]
Module(name, subroutines) == [k |-> "Module", name |-> name, subroutines |-> subroutines]

\* SourceFile.subroutines: the routines of the file and those of its modules
\* (for which check is not called on the modules of a file).
RECURSIVE module_subroutines(_)
module_subroutines(modules) ==
    IF modules = <<>> THEN <<>>
    ELSE Head(modules).subroutines \o module_subroutines(Tail(modules))

SourceFile(path, modules, routines) ==
    [k |-> "SourceFile", name |-> path, modules |-> modules,
     subroutines |-> routines \o module_subroutines(modules)]

\* A call still to be made: cls.check(ast, ...) or cls.check_module(ast, ...)
Call(op, o) == [op |-> op, ast |-> o]
CallEach(op, items) == [i \in DOMAIN items |-> Call(op, items[i])]

\* An entry point has been called for the entity at the top of the stack, and
\* the calls it leads to come before the ones that were pending.
called(entry_point, pending) ==
    /\ calls' = Append(calls, <<entry_point, Head(stack).ast.name>>)
    /\ stack' = pending \o Tail(stack)
    /\ pc' = IF pending \o Tail(stack) = <<>> THEN "linted" ELSE "linting"
    /\ UNCHANGED <<strict, ast, symbols, parents, scope, definitions, ir, exc, warnings,
                   text, retrieved, depth, self>>

\* check on a source file that calls check, not check_module, for its modules.
check_file_recursing ==
    /\ pc = "linting"
    /\ Head(stack).op = "check"
    /\ Head(stack).ast.k = "SourceFile"
    /\ called("check_file", CallEach("check", Head(stack).ast.modules)
                                \o CallEach("check", Head(stack).ast.subroutines))

\* check(ast) for a SourceFile: check_file, then check_module for each module
\* and check for each subroutine
check_file ==
    /\ pc = "linting"
    /\ Head(stack).op = "check"
    /\ Head(stack).ast.k = "SourceFile"
    /\ called("check_file", CallEach("check_module", Head(stack).ast.modules)
                                \o CallEach("check", Head(stack).ast.subroutines))

\* check_module, called for a module of a file or by check(ast) for a Module,
\* which then calls check for each subroutine of the module
check_module ==
    /\ pc = "linting"
    /\ Head(stack).ast.k = "Module"
    /\ called("check_module",
              IF Head(stack).op = "check"
              THEN CallEach("check", Head(stack).ast.subroutines) ELSE <<>>)

\* check(ast) for a Subroutine: check_subroutine, then check for each member
check_subroutine ==
    /\ pc = "linting"
    /\ Head(stack).op = "check"
    /\ Head(stack).ast.k = "Subroutine"
    /\ called("check_subroutine", CallEach("check", Head(stack).ast.members))

MaxMembers == 2

\* Sequences of length n whose i-th element is taken from S[i].
TuplesOver(S, n) == {q \in [1..n -> UNION {S[i] : i \in 1..n}] : \A i \in 1..n : q[i] \in S[i]}

\* The subroutines called name with members nested at most d deep, each with
\* at most MaxMembers members, named after their parent.
RECURSIVE Subroutines(_, _)
Subroutines(name, d) ==
    IF d = 0 THEN {Subroutine(name, <<>>)}
    ELSE UNION {{Subroutine(name, ms) :
                    ms \in TuplesOver([i \in 1..n |->
                                          Subroutines(name \o "%" \o ToString(i), d - 1)], n)} :
                n \in 0..MaxMembers}

\* The modules called name, with at most two subroutines.
Modules(name) ==
    UNION {{Module(name, ss) :
               ss \in TuplesOver([i \in 1..n |->
                                     Subroutines(name \o ":" \o ToString(i), 1)], n)} :
           n \in 0..2}

\* A file with no module, one module or two, and with or without a routine
\* of its own.
SourceFiles ==
    {SourceFile("f", ms, rs) :
        ms \in {<<>>} \cup {<<m>> : m \in Modules("m")}
                     \cup {<<m, Module("n", <<Subroutine("n:1", <<>>)>>)>> : m \in Modules("m")},
        rs \in {<<>>} \cup {<<r>> : r \in Subroutines("r", 1)}}

\* A rule is run on a source file, a module or a subroutine.
InitLint ==
    /\ strict = FALSE
    /\ ast = PyNone
    /\ symbols = <<EmptyTable>>
    /\ parents = <<NoScope>>
    /\ scope = RootScope
    /\ definitions = NoDefinitions
    /\ ir \in SourceFiles \cup Modules("m") \cup Subroutines("r", 2)
    /\ exc = NoExc
    /\ warnings = 0
    /\ text = <<>>
    /\ retrieved = <<>>
    /\ stack = <<Call("check", ir)>>
    /\ calls = <<>>
    /\ depth = 0
    /\ self = NoInstance
    /\ pc = "linting"

NextLint == check_file \/ check_module \/ check_subroutine

SpecLint == InitLint /\ [][NextLint]_vars

(***************************************************************************)
(* ASSOCIATE constructs whose selector may be a name that no scope of the  *)
(* chain defines.                                                          *)
(***************************************************************************)
\* foo, foo(1), foo(1, 2), foo + 1
AssociateSelectors ==
    {Leaf("Name", "foo"),
     PNode("Level_2_Expr", "+", <<Leaf("Name", "foo"), Leaf("Int_Literal_Constant", "1")>>)}
    \cup {PNode("Part_Ref", "", <<Leaf("Name", "foo"), PNode("Section_Subscript_List", "", subs)>>) :
             subs \in SeqsNoRep(Subscripts, MaxSubscripts) \ {<<>>}}

\* ASSOCIATE (baz => selector) / WRITE ... / END ASSOCIATE
UnresolvedAssociates ==
    {PNode("Associate_Construct", "",
           <<PNode("Associate_Stmt", "",
                   <<Str("ASSOCIATE"),
                     PNode("Association_List", "",
                           <<PNode("Association", "",
                                   <<Leaf("Name", "baz"), Str("=>"), sel>>)>>)>>)>>
               \o Body(1, size)
               \o <<Leaf("End_Associate_Stmt", "END ASSOCIATE")>>) :
        sel \in AssociateSelectors, size \in 0..MaxBody}

\* The construct is lowered in a routine scope or in the module scope around
\* it; either may define foo, or none.
InitAssociate ==
    /\ strict = FALSE
    /\ ast \in UnresolvedAssociates
    /\ \E m, r \in {Unbound, SymbolAttributes("DEFERRED"),
                    [SymbolAttributes("REAL") EXCEPT
                        !.shape = Tuple(<<Expr("IntLiteral", "4", <<>>)>>)]} :
          symbols = <<[EmptyTable EXCEPT !["foo"] = m], [EmptyTable EXCEPT !["foo"] = r]>>
    /\ parents = <<NoScope, ModuleScope>>
    /\ scope \in {ModuleScope, RoutineScope}
    /\ definitions = NoDefinitions
    /\ ir = None
    /\ exc = NoExc
    /\ warnings = 0
    /\ text = <<>>
    /\ retrieved = <<>>
    /\ stack = <<>>
    /\ calls = <<>>
    /\ depth = 0
    /\ self = NoInstance
    /\ pc = "parsed"

NextAssociate == parse_fparser_ast

SpecAssociate == InitAssociate /\ [][NextAssociate]_vars

(***************************************************************************)
(* SELECT CASE constructs with comments among their siblings: before the   *)
(* SELECT CASE statement, between it and the first CASE statement, and at  *)
(* the head of a case body.                                                *)
(***************************************************************************)
Comments(given, s) == IF given THEN <<Leaf("Comment", s)>> ELSE <<>>

\* CASE (...) / [! comment] / WRITE, for each selector in turn
RECURSIVE CommentedCases(_, _, _)
CommentedCases(sels, commented, i) ==
    IF i > Len(sels) THEN <<>>
    ELSE <<PNode("Case_Stmt", "", <<sels[i]>>)>> \o Comments(commented[i], "! in body")
         \o <<Stmt(i, 1)>> \o CommentedCases(sels, commented, i + 1)

CommentedCaseConstructs ==
    {PNode("Case_Construct", "",
           Comments(before, "! before")
               \o <<PNode("Select_Case_Stmt", "", <<Leaf("Name", "x")>>)>>
               \o Comments(between, "! between")
               \o CommentedCases(sels, commented, 1)
               \o <<Leaf("End_Select_Stmt", "END SELECT")>>) :
        before \in BOOLEAN, between \in BOOLEAN,
        sels \in SeqsNoRep(CaseSelectors, MaxBranches) \ {<<>>},
        commented \in [1..MaxBranches -> BOOLEAN]}

InitCase ==
    /\ strict \in BOOLEAN
    /\ ast \in CommentedCaseConstructs
    /\ symbols = <<EmptyTable>>
    /\ parents = <<NoScope>>
    /\ scope = RootScope
    /\ definitions = NoDefinitions
    /\ ir = None
    /\ exc = NoExc
    /\ warnings = 0
    /\ text = <<>>
    /\ retrieved = <<>>
    /\ stack = <<>>
    /\ calls = <<>>
    /\ depth = 0
    /\ self = NoInstance
    /\ pc = "parsed"

NextCase == parse_fparser_ast

SpecCase == InitCase /\ [][NextCase]_vars

(***************************************************************************)
(* DO constructs: with or without a label, closed by END DO or by a        *)
(* labelled CONTINUE, counted, conditional or unbounded.                   *)
(***************************************************************************)
\* i = 1, n / i = 1, n, 2 / the condition c1 / no loop control
LoopControls ==
    {<<PNode("Loop_Control", "",
             <<PyNone, Leaf("Name", "i"),
               PNode("list", "", <<Leaf("Int_Literal_Constant", "1"), Leaf("Name", "n")>> \o step)>>)>> :
         step \in {<<>>, <<Leaf("Int_Literal_Constant", "2")>>}}
    \cup {<<PNode("Loop_Control", "", <<Cond(1), PyNone, PyNone>>)>>, <<>>}

\* The statements of a loop body: WRITE, a comment, a CONTINUE that carries
\* the label of some other statement.
LoopStatements ==
    {Stmt(1, 1), Leaf("Comment", "! in body"), Labelled(Leaf("Continue_Stmt", "CONTINUE"), "30")}

\* The sequences over S of length n at most.
SeqsUpTo(S, n) == UNION {[1..k -> S] : k \in 0..n}

\* DO ... END DO, and DO 10 ... closed by END DO or by a CONTINUE labelled 10
\* or 20.
DoConstructs ==
    {PNode("Block_Nonlabel_Do_Construct", "",
           before \o <<PNode("Nonlabel_Do_Stmt", "", <<Str("DO")>> \o control)>>
               \o body \o <<Leaf("End_Do_Stmt", "END DO")>>) :
        before \in Leading, control \in LoopControls,
        body \in SeqsUpTo(LoopStatements, MaxBody)}
    \cup
    {PNode("Block_Label_Do_Construct", "",
           before \o <<PNode("Label_Do_Stmt", "", <<Str("DO"), Leaf("Label", "10")>> \o control)>>
               \o body \o <<closing>>) :
        before \in Leading, control \in LoopControls,
        body \in SeqsUpTo(LoopStatements, MaxBody),
        closing \in {Labelled(Leaf("End_Do_Stmt", "END DO"), "10"),
                     Labelled(Leaf("Continue_Stmt", "CONTINUE"), "10"),
                     Labelled(Leaf("Continue_Stmt", "CONTINUE"), "20")}}

InitLoop ==
    /\ strict \in BOOLEAN
    /\ ast \in DoConstructs
    /\ symbols = <<EmptyTable>>
    /\ parents = <<NoScope>>
    /\ scope = RootScope
    /\ definitions = NoDefinitions
    /\ ir = None
    /\ exc = NoExc
    /\ warnings = 0
    /\ text = <<>>
    /\ retrieved = <<>>
    /\ stack = <<>>
    /\ calls = <<>>
    /\ depth = 0
    /\ self = NoInstance
    /\ pc = "parsed"

NextLoop == parse_fparser_ast

SpecLoop == InitLoop /\ [][NextLoop]_vars

(***************************************************************************)
(* Component access chains p1%p2%...%pn, each part with or without a       *)
(* subscript list.                                                         *)
(***************************************************************************)
MaxParts == 3

\* The names of the parts, by position.
PartNames == <<"foo", "bar", "baz", "t">>

\* The i-th part: its name alone, or with a subscript list.
Parts(i) ==
    {Leaf("Name", PartNames[i])}
    \cup {PNode("Part_Ref", "", <<Leaf("Name", PartNames[i]),
                                  PNode("Section_Subscript_List", "", subs)>>) :
             subs \in SeqsNoRep(Subscripts, MaxSubscripts) \ {<<>>}}

DataRefs ==
    {PNode("Data_Ref", "", parts) :
        parts \in UNION {TuplesOver([i \in 1..n |-> Parts(i)], n) : n \in 2..MaxParts}}

\* The first part is a variable of a derived type, declared in the scope or
\* not; the names of the components are not names of the scope.
InitDataRef ==
    /\ strict \in BOOLEAN
    /\ ast \in DataRefs
    /\ \E b \in {Unbound, SymbolAttributes("DEFERRED"), DerivedType("t", None)} :
          symbols = <<[EmptyTable EXCEPT !["foo"] = b]>>
    /\ parents = <<NoScope>>
    /\ scope = RootScope
    /\ definitions = NoDefinitions
    /\ ir = None
    /\ exc = NoExc
    /\ warnings = 0
    /\ text = <<>>
    /\ retrieved = <<>>
    /\ stack = <<>>
    /\ calls = <<>>
    /\ depth = 0
    /\ self = NoInstance
    /\ pc = "parsed"

NextDataRef == parse_fparser_ast

SpecDataRef == InitDataRef /\ [][NextDataRef]_vars

(***************************************************************************)
(* Trees of IR nodes handed to the three backends: loops, conditionals and *)
(* case constructs nested in one another, routines with a spec, a body and *)
(* members, and modules of routines.                                       *)
(***************************************************************************)
MaxNesting == 2

\* The statements of a body: a comment, an opaque statement.
EmitterLeaves == {Expr("Comment", "! c", <<>>), Expr("Intrinsic", "", Text(<<"WRITE">>))}

\* IF (c1) <statement>
InlineConditionals ==
    {BranchedConditional(<<Expr("Variable", "c1", <<>>)>>, <<Tuple(<<leaf>>)>>, Tuple(<<>>), TRUE) :
        leaf \in EmitterLeaves}

\* The blocks around the statement or block b: DO i = 1, n / DO WHILE (c1) /
\* IF (c1) / IF (c1) ... ELSE IF (c2) ... ELSE / SELECT CASE (x) with two
\* cases.
BlocksAround(b) ==
    {Loop(Expr("Variable", "i", <<>>),
          Expr("LoopRange", "", <<Expr("IntLiteral", "1", <<>>), Expr("Variable", "n", <<>>)>>),
          <<b>>, None, TRUE),
     Loop(Expr("Variable", "c1", <<>>), None, <<b>>, None, TRUE),
     BranchedConditional(<<Expr("Variable", "c1", <<>>)>>, <<Tuple(<<b>>)>>, Tuple(<<>>), FALSE),
     BranchedConditional(<<Expr("Variable", "c1", <<>>), Expr("Variable", "c2", <<>>)>>,
                         <<Tuple(<<b>>), Tuple(<<Expr("Comment", "! c", <<>>)>>)>>,
                         Tuple(<<Expr("Comment", "! c", <<>>)>>), FALSE),
     MultiConditional(Expr("Variable", "x", <<>>),
                      <<Expr("IntLiteral", "1", <<>>), Expr("IntLiteral", "2", <<>>)>>,
                      <<Tuple(<<b>>), Tuple(<<Expr("Comment", "! c", <<>>)>>)>>)}

\* The statements and the blocks nested at most d deep.
RECURSIVE Blocks(_)
Blocks(d) ==
    IF d = 0 THEN EmitterLeaves
    ELSE Blocks(d - 1) \cup InlineConditionals \cup UNION {BlocksAround(b) : b \in Blocks(d - 1)}

\* A routine with b as its body, with or without a declaration part and a
\* member routine.
RoutinesAround(b) ==
    {Routine("r", Section(spec), Section(<<b>>), members) :
        spec \in {<<>>, <<Expr("Comment", "! c", <<>>)>>},
        members \in {<<>>, <<Routine("m", Section(<<>>),
                                     Section(<<Expr("Comment", "! c", <<>>)>>), <<>>)>>}}

EmitterTrees ==
    (Blocks(MaxNesting) \ EmitterLeaves)
    \cup UNION {RoutinesAround(b) : b \in Blocks(MaxNesting)}
    \cup {ModuleWithSpec(name, Section(<<>>), <<r>>) :
             name \in {"fooKernel", "foo"},
             r \in UNION {RoutinesAround(b) : b \in Blocks(1)}}

InitEmitter ==
    /\ strict = FALSE
    /\ ast = PyNone
    /\ symbols = <<EmptyTable>>
    /\ parents = <<NoScope>>
    /\ scope = RootScope
    /\ definitions = NoDefinitions
    /\ ir \in EmitterTrees
    /\ exc = NoExc
    /\ warnings = 0
    /\ text = <<>>
    /\ retrieved = <<>>
    /\ stack = <<>>
    /\ calls = <<>>
    /\ depth = 0
    /\ self = NoInstance
    /\ pc = "lowered"

NextEmitter == fgen \/ maxjgen \/ pygen

SpecEmitter == InitEmitter /\ [][NextEmitter]_vars

(***************************************************************************)
(* SCCAnnotateTransformation (scc_annotate.py).  A routine is              *)
(* [k, name, spec, variables, arguments, body]: spec and body are the      *)
(* tuples of nodes of routine.spec and routine.body, variables the         *)
(* declared variables and arguments the names of the dummy arguments.  A   *)
(* loop is held the way pragmas_attached hands it to the transformation,   *)
(* [k, variable, pragma, pragma_post, body] with pragma and pragma_post    *)
(* None or a tuple of pragmas; a pragma is [k, keyword, content], content  *)
(* being the words of its text.                                            *)
(***************************************************************************)
Pragma(keyword, content) == [k |-> "Pragma", keyword |-> keyword, content |-> content]
Comment(t) == [k |-> "Comment", text |-> t]
Assignment == [k |-> "Assignment"]
CallStatement(name, arguments) ==
    [k |-> "CallStatement", name |-> name, arguments |-> arguments]
WrappedSection(label, body) == [k |-> "Section", label |-> label, body |-> body]
AttachedLoop(variable, pragma, pragma_post, body) ==
    [k |-> "Loop", variable |-> variable, pragma |-> pragma, pragma_post |-> pragma_post,
     body |-> body]
Array(name, shape, intent, pointer) ==
    [k |-> "Array", name |-> name, shape |-> shape, intent |-> intent, pointer |-> pointer,
     derived |-> FALSE]
Scalar(name, intent, derived) ==
    [k |-> "Scalar", name |-> name, shape |-> <<>>, intent |-> intent, pointer |-> FALSE,
     derived |-> derived]
Kernel(name, spec, variables, arguments, body) ==
    [k |-> "Subroutine", name |-> name, spec |-> spec, variables |-> variables,
     arguments |-> arguments, body |-> body]

\* Dimension(name, index, size) and its size_expressions
Dimension(idx, size, exprs) ==
    [index |-> idx, size |-> size, size_expressions |-> exprs]
horizontal == Dimension("jl", "nlon", <<"nlon">>)
vertical == Dimension("jk", "nz", <<"nz">>)
block_dim == Dimension("b", "nb", <<"nb">>)

IsBlock(o) == o.k \in {"Loop", "Section"}

\* 'nodep' in p.content.lower()
has_word(p, w) == \E i \in 1..Len(p.content) : lower(p.content[i]) = w

\* loop.pragma and any('nodep' in p.content.lower() for p in as_tuple(loop.pragma))
as_tuple(item) ==
    IF item = None THEN <<>> ELSE IF item.k = "tuple" THEN item.ch ELSE <<item>>

marked_nodep(loop) ==
    /\ loop.pragma # None
    /\ as_tuple(loop.pragma) # <<>>
    /\ \E i \in 1..Len(as_tuple(loop.pragma)) : has_word(as_tuple(loop.pragma)[i], "nodep")

\* kernel_annotate_sequential_loops_openacc: every loop FindNodes finds is
\* updated in place
RECURSIVE sequential_loops(_, _)
sequential_loops(nodes, hor) ==
    [i \in 1..Len(nodes) |->
        LET o == nodes[i] IN
        IF o.k = "Loop"
        THEN LET inner == [o EXCEPT !.body = sequential_loops(o.body, hor)] IN
             IF marked_nodep(o) THEN inner
             ELSE IF o.variable # hor.index
                  THEN [inner EXCEPT !.pragma = Tuple(<<Pragma("acc", <<"loop", "seq">>)>>)]
                  ELSE inner
        ELSE IF o.k = "Section"
             THEN [o EXCEPT !.body = sequential_loops(o.body, hor)]
             ELSE o]

kernel_annotate_sequential_loops_openacc(routine, hor) ==
    [routine EXCEPT !.body = sequential_loops(routine.body, hor)]

\* Transformer(mapper).visit(routine.body) with mapper[loop] = loop.clone(pragma=
\* (pragma,)) for the horizontal loops: a node of the mapper is replaced by
\* what it maps to, any other node is rebuilt from its visited children.
RECURSIVE vector_loops(_, _, _)
vector_loops(nodes, hor, pragma) ==
    [i \in 1..Len(nodes) |->
        LET o == nodes[i] IN
        IF o.k = "Loop" /\ o.variable = hor.index
        THEN [o EXCEPT !.pragma = Tuple(<<pragma>>)]
        ELSE IF IsBlock(o)
             THEN [o EXCEPT !.body = vector_loops(o.body, hor, pragma)]
             ELSE o]

names_of(variables) == [i \in 1..Len(variables) |-> variables[i].name]

\* The local arrays that need explicit privatization
private_arrays(routine, hor, ver) ==
    SelectSeq(routine.variables,
              LAMBDA v : /\ \A i \in 1..Len(routine.arguments) :
                               lower(routine.arguments[i]) # lower(v.name)
                         /\ v.k = "Array"
                         /\ ~\E i \in 1..Len(v.shape) : v.shape[i] = ver.size
                         /\ ~\E i \in 1..Len(v.shape) : v.shape[i] = hor.size)

\* '' if not private_arrays else f' private({private_arrs})'
private_clause(arrays) ==
    IF arrays = <<>> THEN <<>> ELSE <<"private">> \o names_of(arrays)

kernel_annotate_vector_loops_openacc(routine, hor, ver) ==
    LET pragma == Pragma("acc", <<"loop", "vector">>
                                \o private_clause(private_arrays(routine, hor, ver)))
    IN [routine EXCEPT !.body = vector_loops(routine.body, hor, pragma)]

\* kernel_annotate_subroutine_present_openacc
kernel_annotate_subroutine_present_openacc(routine) ==
    LET args == SelectSeq(routine.variables,
                          LAMBDA v : \E i \in 1..Len(routine.arguments) :
                                        routine.arguments[i] = v.name)
        argnames == names_of(SelectSeq(args, LAMBDA a : a.k = "Array")
                             \o SelectSeq(args, LAMBDA a : a.derived))
    IN [routine EXCEPT
          !.body = <<Pragma("acc", <<"data", "present">> \o argnames)>> \o @
                   \o <<Comment(""), Pragma("acc", <<"end", "data">>)>>]

insert_annotations_always_vector(routine, hor, ver, hoist_column_arrays) ==
    LET r1 == kernel_annotate_sequential_loops_openacc(routine, hor)
        r2 == kernel_annotate_vector_loops_openacc(r1, hor, ver)
        r3 == kernel_annotate_subroutine_present_openacc(r2)
    IN [r3 EXCEPT !.spec = Append(@, Pragma("acc", <<"routine", "vector">>))]

insert_annotations(routine, hor, ver, hoist_column_arrays) ==
    LET r1 == kernel_annotate_sequential_loops_openacc(routine, hor)
        r2 == kernel_annotate_vector_loops_openacc(r1, hor, ver)
        r3 == kernel_annotate_subroutine_present_openacc(r2)
    IN IF hoist_column_arrays
       THEN [r3 EXCEPT !.spec = Append(@, Pragma("acc", <<"routine", "seq">>))]
       ELSE [r3 EXCEPT !.spec = Append(@, Pragma("acc", <<"routine", "vector">>))]

\* SCCBaseTransformation.check_routine_pragmas: the routine is marked as
\* sequential
check_routine_pragmas(routine, directive) ==
    \E i \in 1..Len(routine.spec) :
        /\ routine.spec[i].k = "Pragma"
        /\ has_word(routine.spec[i], "routine")
        /\ has_word(routine.spec[i], "seq")

\* Transformer(section_mapper).visit(routine.body): a vector_section is
\* replaced by its body
RECURSIVE remove_section_wrappers(_)
remove_section_wrappers(nodes) ==
    IF nodes = <<>> THEN <<>>
    ELSE LET o == Head(nodes)
             rest == remove_section_wrappers(Tail(nodes))
         IN IF o.k = "Section" /\ o.label = "vector_section" THEN o.body \o rest
            ELSE IF IsBlock(o)
                 THEN <<[o EXCEPT !.body = remove_section_wrappers(o.body)]>> \o rest
                 ELSE <<o>> \o rest

process_kernel(routine, slf) ==
    IF check_routine_pragmas(routine, slf.directive) THEN routine
    ELSE LET r1 == IF slf.directive = "openacc"
                   THEN insert_annotations(routine, horizontal, vertical,
                                           slf.hoist_column_arrays)
                   ELSE routine
         IN [r1 EXCEPT !.body = remove_section_wrappers(r1.body)]

\* device_alloc_column_locals
device_alloc_column_locals(routine, column_locals) ==
    IF column_locals = <<>> THEN routine
    ELSE [routine EXCEPT
            !.body = <<Comment(""),
                       Pragma("acc", <<"enter", "data", "create">> \o column_locals),
                       Comment("")>> \o @
                     \o <<Comment(""),
                          Pragma("acc", <<"exit", "data", "delete">> \o column_locals),
                          Comment("")>>]

\* The node a path of positions leads to
RECURSIVE node_at(_, _)
node_at(nodes, path) ==
    IF Len(path) = 1 THEN nodes[path[1]]
    ELSE node_at(nodes[path[1]].body, Tail(path))

\* An update in place of the node a path leads to
RECURSIVE updated_at(_, _, _)
updated_at(nodes, path, new) ==
    IF Len(path) = 1 THEN [nodes EXCEPT ![path[1]] = new]
    ELSE [nodes EXCEPT ![path[1]] =
             [@ EXCEPT !.body = updated_at(@, Tail(path), new)]]

\* FindNodes(ir.CallStatement).visit(routine.body), as paths
RECURSIVE find_calls(_, _, _)
find_calls(nodes, prefix, i) ==
    IF i > Len(nodes) THEN <<>>
    ELSE LET o == nodes[i]
             here == IF o.k = "CallStatement" THEN <<Append(prefix, i)>>
                     ELSE IF IsBlock(o) THEN find_calls(o.body, Append(prefix, i), 1)
                          ELSE <<>>
         IN here \o find_calls(nodes, prefix, i + 1)

\* FindVariables(unique=True).visit(driver_loop)
RECURSIVE find_variables(_)
find_variables(nodes) ==
    UNION {IF nodes[i].k = "CallStatement"
           THEN {nodes[i].arguments[j] : j \in 1..Len(nodes[i].arguments)}
           ELSE IF IsBlock(nodes[i]) THEN find_variables(nodes[i].body) ELSE {}
           : i \in 1..Len(nodes)}

\* The loops among the ancestors of the node at path, outermost first
enclosing_loops(nodes, path) ==
    SelectSeq([n \in 1..(Len(path) - 1) |-> SubSeq(path, 1, n)],
              LAMBDA q : node_at(nodes, q).k = "Loop")

\* ', '.join(set(v.name for v in arrays)) for at most one name
joined(S) == IF S = {} THEN <<>> ELSE <<CHOOSE n \in S : TRUE>>

\* The driver loop after annotate_driver, and the exception it raised
annotated_any_pragma(driver_loop, p_content) ==
    LET gang == Pragma("acc", p_content)
        end == Pragma("acc", <<"end", "parallel", "loop">>)
    IN IF driver_loop.pragma = None
       THEN [loop |-> [driver_loop EXCEPT !.pragma = Tuple(<<gang>>),
                                          !.pragma_post = Tuple(<<end>>)],
             exc |-> NoExc]
       ELSE IF Len(as_tuple(driver_loop.pragma)) = 1 /\ as_tuple(driver_loop.pragma_post) # <<>>
            THEN [loop |-> [driver_loop EXCEPT
                              !.pragma = Tuple(<<as_tuple(@)[1], gang>>),
                              !.pragma_post = Tuple(<<end, as_tuple(@)[1]>>)],
                  exc |-> NoExc]
            ELSE [loop |-> driver_loop, exc |-> NoExc]

annotated(driver_loop, p_content) ==
    LET gang == Pragma("acc", p_content)
        end == Pragma("acc", <<"end", "parallel", "loop">>)
    IN IF driver_loop.pragma = None
       THEN [loop |-> [driver_loop EXCEPT !.pragma = Tuple(<<gang>>),
                                          !.pragma_post = Tuple(<<end>>)],
             exc |-> NoExc]
       ELSE IF driver_loop.pragma.k # "tuple"
       THEN [loop |-> driver_loop, exc |-> "TypeError"]
       ELSE IF Len(driver_loop.pragma.ch) = 1
            THEN LET first == driver_loop.pragma.ch[1] IN
                 IF /\ first.keyword = "acc"
                    /\ Len(first.content) > 1
                    /\ lower(first.content[1]) = "data"
                 THEN LET l1 == [driver_loop EXCEPT !.pragma = Tuple(<<first, gang>>)] IN
                      IF driver_loop.pragma_post = None
                      THEN [loop |-> l1, exc |-> "TypeError"]
                      ELSE IF driver_loop.pragma_post.ch = <<>>
                           THEN [loop |-> l1, exc |-> "IndexError"]
                           ELSE [loop |-> [l1 EXCEPT !.pragma_post =
                                              Tuple(<<end, driver_loop.pragma_post.ch[1]>>)],
                                 exc |-> NoExc]
                 ELSE [loop |-> driver_loop, exc |-> NoExc]
            ELSE [loop |-> driver_loop, exc |-> NoExc]

\* annotate_driver on the loops at the paths driver_loop and kernel_loop of
\* nodes (kernel_loop is <<>> when there is no vector loop)
annotate_driver(directive, nodes, driver_loop, kernel_loop, blk, column_locals) ==
    IF directive # "openacc" THEN [body |-> nodes, exc |-> NoExc]
    ELSE LET arrays == {v \in find_variables(<<node_at(nodes, driver_loop)>>) :
                           /\ v.k = "Array"
                           /\ v.intent = ""
                           /\ ~v.pointer
                           /\ \A i \in 1..Len(column_locals) : column_locals[i] # v.name
                           /\ ~\E i \in 1..Len(v.shape) :
                                 \E j \in 1..Len(blk.size_expressions) :
                                    v.shape[i] = blk.size_expressions[j]}
             names == joined({v.name : v \in arrays})
             p_content == <<"parallel", "loop", "gang">>
                          \o (IF names = <<>> THEN <<>> ELSE <<"private">> \o names)
             n1 == IF kernel_loop # <<>>
                   THEN updated_at(nodes, kernel_loop,
                                   [node_at(nodes, kernel_loop) EXCEPT
                                      !.pragma = Pragma("acc", <<"loop", "vector">>)])
                   ELSE nodes
             res == annotated(node_at(n1, driver_loop), p_content)
         IN [body |-> updated_at(n1, driver_loop, res.loop), exc |-> res.exc]

\* The loop of process_driver over the calls found, from the i-th on
RECURSIVE driver_calls(_, _, _, _, _, _)
driver_calls(nodes, found, i, targets, column_locals, slf) ==
    IF i > Len(found) THEN [body |-> nodes, exc |-> NoExc]
    ELSE IF targets = None THEN [body |-> nodes, exc |-> "TypeError"]
    ELSE LET call == node_at(nodes, found[i])
             loops == enclosing_loops(nodes, found[i])
             kernel_loops == SelectSeq(loops,
                                LAMBDA q : node_at(nodes, q).variable = horizontal.index)
         IN IF call.name \notin targets.names \/ loops = <<>>
            THEN driver_calls(nodes, found, i + 1, targets, column_locals, slf)
            ELSE IF kernel_loops # <<>> /\ kernel_loops[1] = loops[1]
                 THEN [body |-> nodes, exc |-> "AssertionError"]
                 ELSE LET res == annotate_driver(slf.directive, nodes, loops[1],
                                                 IF kernel_loops = <<>> THEN <<>>
                                                 ELSE kernel_loops[1],
                                                 block_dim, column_locals)
                      IN IF res.exc # NoExc THEN res
                         ELSE driver_calls(res.body, found, i + 1, targets,
                                           column_locals, slf)

\* process_driver: the routine it leaves and the exception it raised
process_driver(routine, targets, item, slf) ==
    LET column_locals == IF slf.hoist_column_arrays /\ item # None
                         THEN item.column_locals ELSE <<>>
        r1 == IF slf.hoist_column_arrays /\ slf.directive = "openacc"
              THEN device_alloc_column_locals(routine, column_locals)
              ELSE routine
        res == driver_calls(r1.body, find_calls(r1.body, <<>>, 1), 1, targets,
                            column_locals, slf)
    IN [routine |-> [r1 EXCEPT !.body = res.body], exc |-> res.exc]

\* kwargs.get(key, None)
kwarg(kwargs, key) == IF key \in DOMAIN kwargs THEN kwargs[key] ELSE None

\* What transform_subroutine leaves of a routine that has not been processed
transformed(routine, kwargs, slf) ==
    IF "role" \notin DOMAIN kwargs THEN [routine |-> routine, exc |-> "KeyError"]
    ELSE LET r1 == IF kwargs.role = "kernel" THEN process_kernel(routine, slf)
                   ELSE routine
         IN IF kwargs.role = "driver"
            THEN process_driver(r1, kwarg(kwargs, "targets"), kwarg(kwargs, "item"), slf)
            ELSE [routine |-> r1, exc |-> NoExc]

\* Calls of transform_subroutine made on one instance
MaxTransformCalls == 2

transform_subroutine_again(routine, kwargs) ==
    /\ pc = "transform"
    /\ Len(calls) < MaxTransformCalls
    /\ LET res == transformed(ir[routine], kwargs, self) IN
       /\ ir' = [ir EXCEPT ![routine] = res.routine]
       /\ exc' = res.exc
       /\ self' = IF res.exc = NoExc
                  THEN [self EXCEPT !._processed = @ \cup {routine}]
                  ELSE self
       /\ calls' = Append(calls, [routine |-> routine, kwargs |-> kwargs,
                                  bailed |-> FALSE, exc |-> res.exc])
    /\ UNCHANGED <<strict, ast, symbols, parents, scope, definitions, warnings, text, pc,
                   retrieved, stack, depth>>

\* SCCAnnotateTransformation.transform_subroutine(routine, **kwargs), routine
\* being the position in ir of the routine handed over
transform_subroutine(routine, kwargs) ==
    /\ pc = "transform"
    /\ Len(calls) < MaxTransformCalls
    /\ IF routine \in self._processed
       THEN /\ exc' = NoExc
            /\ calls' = Append(calls, [routine |-> routine, kwargs |-> kwargs,
                                       bailed |-> TRUE, exc |-> NoExc])
            /\ UNCHANGED <<ir, self>>
       ELSE LET res == transformed(ir[routine], kwargs, self) IN
            /\ ir' = [ir EXCEPT ![routine] = res.routine]
            /\ exc' = res.exc
            /\ self' = IF res.exc = NoExc
                       THEN [self EXCEPT !._processed = @ \cup {routine}]
                       ELSE self
            /\ calls' = Append(calls, [routine |-> routine, kwargs |-> kwargs,
                                       bailed |-> FALSE, exc |-> res.exc])
    /\ UNCHANGED <<strict, ast, symbols, parents, scope, definitions, warnings, text, pc,
                   retrieved, stack, depth>>

(***************************************************************************)
(* Routines handed to SCCAnnotateTransformation.                           *)
(***************************************************************************)
Directives == {"openacc", "None"}

Instances ==
    {[directive |-> d, hoist_column_arrays |-> h, _processed |-> {}] :
        d \in Directives, h \in BOOLEAN}

\* !$loki nodep, !$claw NODEP, another pragma, a pragma next to nodep
KernelLoopPragmas ==
    {None,
     Tuple(<<Pragma("loki", <<"nodep">>)>>),
     Tuple(<<Pragma("omp", <<"simd">>)>>),
     Tuple(<<Pragma("omp", <<"simd">>), Pragma("claw", <<"NODEP">>)>>)}

LoopVariables == {"jl", "jk", "i"}

\* Loops nested d deep, a loop never using the variable of a loop around it
RECURSIVE KernelLoops(_, _)
KernelLoops(d, used) ==
    IF d = 0 THEN {}
    ELSE UNION {{AttachedLoop(v, p, None, body) :
                    p \in KernelLoopPragmas,
                    body \in {<<Assignment>>}
                             \cup {<<l>> : l \in KernelLoops(d - 1, used \cup {v})}} :
                v \in LoopVariables \ used}

\* A loop, or a horizontal loop in its vector_section wrapper
KernelItems ==
    KernelLoops(MaxNesting, {})
    \cup {WrappedSection("vector_section", <<l>>) :
            l \in {x \in KernelLoops(1, {}) : x.variable = horizontal.index}}
    \cup {AttachedLoop("jk", None, None, <<WrappedSection("vector_section", <<l>>)>>) :
            l \in {x \in KernelLoops(1, {}) : x.variable = horizontal.index}}

\* a(nlon, nz) and the derived-type t are arguments; b(nlon) and c(nz) are
\* local arrays of the horizontal and the vertical size, d(n) and e(n, m)
\* local arrays of neither, s a local scalar.
KernelArguments == <<"a", "t">>
KernelDeclared ==
    <<Array("a", <<"nlon", "nz">>, "inout", FALSE), Scalar("t", "in", TRUE),
      Array("b", <<"nlon">>, "", FALSE), Array("c", <<"n", "nz">>, "", FALSE),
      Scalar("s", "", FALSE)>>
KernelVariables ==
    {KernelDeclared,
     KernelDeclared \o <<Array("d", <<"n">>, "", FALSE)>>,
     KernelDeclared \o <<Array("d", <<"n">>, "", FALSE), Array("e", <<"n", "m">>, "", FALSE)>>}

KernelSpecs == {<<>>, <<Pragma("loki", <<"routine", "seq">>)>>}

KernelRoutines ==
    {Kernel("kernel", spec, variables, KernelArguments, body) :
        spec \in KernelSpecs, variables \in KernelVariables,
        body \in {<<item>> : item \in KernelItems}
                 \cup {<<Assignment, item>> : item \in KernelLoops(1, {})}}

\* What a driver loop carries: nothing, acc data with and without end data,
\* DATA in capitals, acc data without clause, a data pragma of another
\* keyword, another pragma, two pragmas.
DriverLoopPragmas ==
    {<<None, None>>,
     <<Tuple(<<Pragma("acc", <<"data", "present", "a">>)>>),
       Tuple(<<Pragma("acc", <<"end", "data">>)>>)>>,
     <<Tuple(<<Pragma("acc", <<"DATA", "copy", "a">>)>>),
       Tuple(<<Pragma("acc", <<"end", "data">>), Pragma("omp", <<"barrier">>)>>)>>,
     <<Tuple(<<Pragma("acc", <<"data", "present", "a">>)>>), None>>,
     <<Tuple(<<Pragma("acc", <<"data">>)>>), Tuple(<<Pragma("acc", <<"end", "data">>)>>)>>,
     <<Tuple(<<Pragma("omp", <<"data", "a">>)>>), None>>,
     <<Tuple(<<Pragma("omp", <<"parallel", "do">>)>>),
       Tuple(<<Pragma("omp", <<"end", "parallel", "do">>)>>)>>,
     <<Tuple(<<Pragma("acc", <<"data", "present", "a">>), Pragma("omp", <<"parallel", "do">>)>>),
       Tuple(<<Pragma("omp", <<"end", "parallel", "do">>), Pragma("acc", <<"end", "data">>)>>)>>}

\* a is allocated with the block dimension, tmp is not
Blocked == Array("a", <<"nlon", "nz", "nb">>, "", FALSE)
Unblocked == Array("tmp", <<"nlon", "nz">>, "", FALSE)

\* What a driver loop holds
DriverStatements ==
    {CallStatement("kernel", <<Blocked>>), CallStatement("kernel", <<Blocked, Unblocked>>),
     CallStatement("other", <<>>),
     AttachedLoop("jl", None, None, <<CallStatement("kernel", <<Blocked>>)>>)}

MaxDriverBody == 2

DriverLoops ==
    {AttachedLoop("b", p[1], p[2], body) :
        p \in DriverLoopPragmas,
        body \in SeqsUpTo(DriverStatements, MaxDriverBody) \ {<<>>}}

\* One driver loop, a call outside of any loop, a horizontal loop as the
\* outermost loop around a call, two driver loops
DriverBodies ==
    {<<l>> : l \in DriverLoops}
    \cup {<<CallStatement("kernel", <<Blocked>>)>>,
          <<AttachedLoop("jl", None, None, <<CallStatement("kernel", <<Blocked>>)>>)>>}
    \cup {<<l[1], Assignment, l[2]>> :
            l \in {AttachedLoop("b", p[1], p[2], <<CallStatement("kernel", <<Blocked>>)>>) :
                      p \in DriverLoopPragmas}
                  \X {AttachedLoop("b", None, None, <<CallStatement("kernel", <<Blocked>>)>>)}}

DriverRoutines ==
    {Kernel("driver", <<>>, <<Blocked, Unblocked>>, <<>>, body) : body \in DriverBodies}

Targets(names) == [names |-> names]
SchedulerItem(column_locals) == [column_locals |-> column_locals]

KernelKwargs == {[role |-> "kernel"]}
DriverKwargs ==
    {[role |-> "driver", targets |-> Targets({"kernel"})],
     [role |-> "driver", targets |-> Targets({"kernel", "other"}),
      item |-> SchedulerItem(<<"tmp">>)],
     [role |-> "driver"]}
AnyKwargs ==
    KernelKwargs \cup DriverKwargs
    \cup {[role |-> "other"], [targets |-> Targets({"kernel"})]}

InitAnnotate(routines, instances) ==
    /\ strict = FALSE
    /\ ast \in routines
    /\ ir = ast
    /\ self \in instances
    /\ symbols = <<EmptyTable>>
    /\ parents = <<NoScope>>
    /\ scope = RootScope
    /\ definitions = NoDefinitions
    /\ exc = NoExc
    /\ warnings = 0
    /\ text = <<>>
    /\ retrieved = <<>>
    /\ stack = <<>>
    /\ calls = <<>>
    /\ depth = 0
    /\ pc = "transform"

(***************************************************************************)
(* Kernels: transform_subroutine with role kernel on one routine.          *)
(***************************************************************************)
InitKernel == InitAnnotate({<<r>> : r \in KernelRoutines}, Instances)

NextKernel == \E kwargs \in KernelKwargs : transform_subroutine(1, kwargs)

SpecKernel == InitKernel /\ [][NextKernel]_vars

(***************************************************************************)
(* Drivers: transform_subroutine with role driver on one routine.          *)
(***************************************************************************)
InitDriver == InitAnnotate({<<r>> : r \in DriverRoutines}, Instances)

NextDriver == \E kwargs \in DriverKwargs : transform_subroutine(1, kwargs)

SpecDriver == InitDriver /\ [][NextDriver]_vars

(***************************************************************************)
(* One instance, two routines, calls with any role.                        *)
(***************************************************************************)
ProcessedKernels ==
    {Kernel("kernel", spec, KernelDeclared, KernelArguments,
            <<AttachedLoop("jk", None, None, <<AttachedLoop("jl", None, None, <<Assignment>>)>>)>>) :
        spec \in KernelSpecs}
ProcessedDrivers ==
    {Kernel("driver", <<>>, <<Blocked, Unblocked>>, <<>>, <<AttachedLoop("b", p[1], p[2], body)>>) :
        p \in {<<None, None>>,
               <<Tuple(<<Pragma("acc", <<"data", "present", "a">>)>>), None>>},
        body \in {<<CallStatement("kernel", <<Blocked>>)>>,
                  <<AttachedLoop("jl", None, None, <<CallStatement("kernel", <<Blocked>>)>>),
                    CallStatement("kernel", <<Blocked>>)>>}}

InitProcessed ==
    InitAnnotate((ProcessedKernels \cup ProcessedDrivers) \X ProcessedKernels, Instances)

NextProcessed ==
    \E routine \in 1..2, kwargs \in AnyKwargs : transform_subroutine(routine, kwargs)

SpecProcessed == InitProcessed /\ [][NextProcessed]_vars

(***************************************************************************)
(* Counted loops with integer bounds handed to the Python backend.         *)
(***************************************************************************)
MaxIndex == 4
MaxStep == 3

\* IntLiteral(value)
IntLiteral(value) == Expr("IntLiteral", ToString(value), <<>>)

\* DO i = start, stop [, step] with one statement in its body
CountedLoops ==
    {Loop(Expr("Variable", "i", <<>>),
          Expr("LoopRange", "", <<IntLiteral(start), IntLiteral(stop)>> \o step),
          <<Expr("Comment", "! c", <<>>)>>, None, TRUE) :
        start \in -MaxIndex..MaxIndex, stop \in -MaxIndex..MaxIndex,
        step \in {<<>>} \cup {<<IntLiteral(inc)>> : inc \in (-MaxStep..MaxStep) \ {0}}}

InitRange ==
    /\ strict = FALSE
    /\ ast = PyNone
    /\ symbols = <<EmptyTable>>
    /\ parents = <<NoScope>>
    /\ scope = RootScope
    /\ definitions = NoDefinitions
    /\ ir \in CountedLoops
    /\ exc = NoExc
    /\ warnings = 0
    /\ text = <<>>
    /\ retrieved = <<>>
    /\ stack = <<>>
    /\ calls = <<>>
    /\ depth = 0
    /\ self = NoInstance
    /\ pc = "lowered"

NextRange == pygen

SpecRange == InitRange /\ [][NextRange]_vars

(***************************************************************************)
(* Logical equivalences: a .eqv. b and a .neqv. b with the operator in any *)
(* letter case.                                                            *)
(***************************************************************************)
EquivTokens == {".eqv.", ".EQV.", ".Eqv.", ".neqv.", ".NEQV.", ".Neqv."}

\* foo, bar, .NOT. foo, foo .AND. bar, foo .or. bar, foo .NEQV. bar
EquivOperands ==
    {Leaf("Name", "foo"), Leaf("Name", "bar"),
     PNode("And_Operand", ".NOT.", <<Leaf("Name", "foo")>>),
     PNode("Or_Operand", ".AND.", <<Leaf("Name", "foo"), Leaf("Name", "bar")>>),
     PNode("Equiv_Operand", ".or.", <<Leaf("Name", "foo"), Leaf("Name", "bar")>>),
     PNode("Level_5_Expr", ".NEQV.", <<Leaf("Name", "foo"), Leaf("Name", "bar")>>)}

Equivalences ==
    {PNode("Level_5_Expr", op, <<a, b>>) : op \in EquivTokens, a \in EquivOperands,
                                           b \in EquivOperands}

InitEquiv ==
    /\ strict = FALSE
    /\ ast \in Equivalences
    /\ symbols = <<EmptyTable>>
    /\ parents = <<NoScope>>
    /\ scope = RootScope
    /\ definitions = NoDefinitions
    /\ ir = None
    /\ exc = NoExc
    /\ warnings = 0
    /\ text = <<>>
    /\ retrieved = <<>>
    /\ stack = <<>>
    /\ calls = <<>>
    /\ depth = 0
    /\ self = NoInstance
    /\ pc = "parsed"

NextEquiv == parse_fparser_ast

SpecEquiv == InitEquiv /\ [][NextEquiv]_vars

(***************************************************************************)
(* Properties of unsupported features.                                     *)
(***************************************************************************)
\* C4: with strict mode off, a node of a class without a handler is lowered,
\* with a warning, to one opaque Intrinsic node that holds the source text of
\* the node.
C4_LenientPassthrough ==
    (pc # "parsed" /\ ~strict /\ ast.k \in UnhandledClasses \cup UnhandledBlocks) =>
        /\ pc = "lowered"
        /\ warnings >= 1
        /\ ir.k = "Intrinsic"
        /\ ir.ch = Text(tostr(ast))

\* With strict mode off, `FLUSH 6` has been lowered to the literal 6 alone:
\* the result is the lowered child, and no node holds the text of the statement.
C4_Witness ==
    /\ pc = "lowered"
    /\ ~strict
    /\ ast.k = "Flush_Stmt"
    /\ warnings = 1
    /\ ir = visit_Int_Literal_Constant(ast.ch[1])

\* A call of warn_or_fail is on the path of the lowering of o.
RECURSIVE UnsupportedFeature(_)
UnsupportedFeature(o) ==
    \/ o.k = "Use_Stmt" /\ (o.ch[1] # PyNone \/ o.ch[4] = Str(","))
    \/ o.k = "Length_Selector" /\ o.ch[1] = Str("*")
    \/ o.k \in {"Entity_Decl", "Component_Decl"} /\ o.ch[3] # PyNone
    \/ o.k = "Derived_Type_Stmt" /\ (o.ch[1] # PyNone \/ o.ch[3] # PyNone)
    \/ o.k = "Allocate_Stmt" /\ o.ch[1] # PyNone
    \/ o.k = "Alloc_Opt" /\ lower(o.ch[1].s) # "source"
    \/ o.k = "Subroutine_Stmt" /\ o.ch[1] # PyNone
    \/ o.k \in UnhandledClasses \cup UnhandledBlocks
    \/ \E i \in DOMAIN o.ch : UnsupportedFeature(o.ch[i])

\* C5: a lowering that meets an unsupported feature raises NotImplementedError
\* and returns no IR with strict mode on; with strict mode off it logs a
\* warning for it, raises nothing and returns the IR of the enclosing handler.
C5_StrictGovernsEverySite ==
    (pc # "parsed" /\ UnsupportedFeature(ast)) =>
        IF strict
        THEN pc = "failed" /\ exc = "NotImplementedError" /\ ir = None /\ warnings = 0
        ELSE pc = "lowered" /\ exc = NoExc /\ warnings >= 1

\* With strict mode off, a USE statement with a rename list has logged its
\* warning and then ended in an UnboundLocalError, without an Import node.
C5_Witness ==
    /\ pc = "failed"
    /\ ~strict
    /\ ast.k = "Use_Stmt"
    /\ ast.ch[4] = Str(",")
    /\ warnings >= 1
    /\ exc = "UnboundLocalError"
    /\ ir = None

(***************************************************************************)
(* Properties of imports.                                                  *)
(***************************************************************************)
\* The entry of the module for a name, as a USE statement leaves it in the
\* importing scope.
ImportedEntry(module, name) ==
    [definitions[module].symbols[name] EXCEPT !.flags = @ \cup {"imported"},
                                              !.module = module]

\* The tables of the scopes other than the one lowered in, the chain of
\* scopes and the definitions are what they were.
OnlyLocalScopeWritten ==
    /\ definitions' = definitions
    /\ parents' = parents
    /\ Len(symbols') = Len(symbols)
    /\ \A i \in DOMAIN symbols : i # scope => symbols'[i] = symbols[i]

C11_Step ==
    (pc = "parsed" /\ pc' # "parsed" /\ ast.k = "Use_Stmt" /\ ast.ch[4] = Str("")
       /\ (strict => ast.ch[1] = PyNone)) =>
        /\ pc' = "lowered"
        /\ ir' = Expr("Import", ast.ch[3].s, <<None>>)
        /\ OnlyLocalScopeWritten
        /\ IF definitions[ast.ch[3].s].known
           THEN \A n \in Names :
                   symbols'[scope][n] =
                       IF definitions[ast.ch[3].s].symbols[n] # Unbound
                       THEN ImportedEntry(ast.ch[3].s, n)
                       ELSE symbols[scope][n]
           ELSE symbols'[scope] = symbols[scope]

\* C11: a USE statement without an ONLY list, of a module in the definitions,
\* leaves in the scope it is lowered in one entry per symbol of the module,
\* the module's entry tagged imported, in place of any entry the scope had
\* under that name, and leaves the other entries, the other scopes and the
\* module's own table as they were; of a module not in the definitions, it
\* leaves the scope as it was.  Either way an Import node without a symbol
\* list is returned.
C11_WholeModuleImport == [][C11_Step]_vars

\* `USE m` has been lowered in the routine scope: foo, which the scope bound as
\* DEFERRED and the module scope as INTEGER, is now the module's REAL entry
\* tagged imported, and bar, which the module has not, is as it was.
C11_Witness ==
    /\ pc = "lowered"
    /\ ast.k = "Use_Stmt"
    /\ ast.ch[4] = Str("")
    /\ scope = RoutineScope
    /\ definitions["m"].known
    /\ definitions["m"].symbols["foo"] = SymbolAttributes("REAL")
    /\ definitions["m"].symbols["bar"] = Unbound
    /\ symbols[RoutineScope]["foo"] = ImportedEntry("m", "foo")
    /\ symbols[RoutineScope]["bar"] = SymbolAttributes("REAL")
    /\ symbols[ModuleScope]["foo"] = SymbolAttributes("INTEGER")

\* The entry a listed name gets: the module's entry tagged imported, or a
\* DEFERRED entry tagged imported when the module is not in the definitions.
SelectedEntry(module, name) ==
    IF definitions[module].known THEN ImportedEntry(module, name)
    ELSE [SymbolAttributes("DEFERRED") EXCEPT !.flags = {"imported"}]

\* USE ... ONLY is lowered by this step, with nothing unsupported in a strict
\* lowering.
SelectiveImport ==
    /\ pc = "parsed"
    /\ pc' # "parsed"
    /\ ast.k = "Use_Stmt"
    /\ ast.ch[4] = Str(", ONLY:")
    /\ strict => ast.ch[1] = PyNone

\* The step binds the listed names, and no other, in the scope lowered in and
\* returns an Import node that lists them in source order.
SelectedNamesBound ==
    /\ pc' = "lowered"
    /\ ir' = Expr("Import", ast.ch[3].s,
                  <<Tuple(IF ast.ch[5] = PyNone THEN <<>>
                          ELSE [i \in DOMAIN ast.ch[5].ch |->
                                   Expr("Variable", ast.ch[5].ch[i].s, <<>>)])>>)
    /\ OnlyLocalScopeWritten
    /\ \A n \in Names :
          symbols'[scope][n] = IF n \in OnlyNames(ast) THEN SelectedEntry(ast.ch[3].s, n)
                               ELSE symbols[scope][n]

C12_Step ==
    SelectiveImport =>
        /\ SelectedNamesBound
        /\ (~definitions[ast.ch[3].s].known /\ OnlyNames(ast) # {}) => warnings' > warnings

\* C12: a USE ... ONLY statement binds in the scope it is lowered in the names
\* of its list and no other, each to the module's entry tagged imported, or,
\* when the module is not in the definitions, to a DEFERRED entry tagged
\* imported, with a warning logged; the lowering goes on and returns an Import
\* node that lists the names.
C12_SelectiveImport == [][C12_Step]_vars

\* `USE m, ONLY: foo, bar` of a module that is not in the definitions has been
\* lowered without a nature: both names are DEFERRED and imported, and the log
\* holds no warning.
C12_Witness ==
    /\ pc = "lowered"
    /\ ast.k = "Use_Stmt"
    /\ ast.ch[1] = PyNone
    /\ OnlyNames(ast) = {"foo", "bar"}
    /\ ~definitions["m"].known
    /\ symbols[scope]["foo"] = [SymbolAttributes("DEFERRED") EXCEPT !.flags = {"imported"}]
    /\ symbols[scope]["bar"] = [SymbolAttributes("DEFERRED") EXCEPT !.flags = {"imported"}]
    /\ ir.k = "Import"
    /\ warnings = 0

(***************************************************************************)
(* Properties of declarations.                                             *)
(***************************************************************************)
\* The attributes of the declaration statement o, and its entities.
AttrsOf(o) == IF o.ch[2] = PyNone THEN <<>> ELSE o.ch[2].ch
EntitiesOf(o) == o.ch[3].ch

\* The shape of the DIMENSION attribute of o, None without one.
SharedShape(o) ==
    IF \E i \in DOMAIN AttrsOf(o) : AttrsOf(o)[i].k = "Dimension_Attr_Spec"
    THEN visit_List(AttrsOf(o)[CHOOSE i \in DOMAIN AttrsOf(o) :
                                   AttrsOf(o)[i].k = "Dimension_Attr_Spec"].ch[2], ActiveScope)
    ELSE None

\* The attributes all the names of o share: its type, its flags, its intent.
SharedAttributes(o) ==
    [SymbolAttributes(o.ch[1].s) EXCEPT
        !.flags = {lower(AttrsOf(o)[i].s) : i \in {j \in DOMAIN AttrsOf(o) : AttrsOf(o)[j].k = "Attr_Spec"}},
        !.intent = IF \E i \in DOMAIN AttrsOf(o) : AttrsOf(o)[i].k = "Intent_Attr_Spec"
                   THEN lower(AttrsOf(o)[CHOOSE i \in DOMAIN AttrsOf(o) :
                                            AttrsOf(o)[i].k = "Intent_Attr_Spec"].ch[2].s)
                   ELSE ""]

\* The shape and the initial value an entity is written with, None without.
OwnShape(e) == IF e.ch[2] = PyNone THEN None ELSE visit_List(e.ch[2], ActiveScope)
OwnInitial(e) == IF e.ch[4] = PyNone THEN None ELSE visit_Int_Literal_Constant(e.ch[4].ch[2])

\* A declaration that is not of external procedures is lowered by this step.
DeclarationLowered ==
    /\ pc = "parsed"
    /\ pc' # "parsed"
    /\ ast.k = "Type_Declaration_Stmt"
    /\ \A i \in DOMAIN AttrsOf(ast) : AttrsOf(ast)[i].s # "EXTERNAL"

\* One Declaration node lists the names in source order, and the scope lowered
\* in has a new entry for each of them and for no other name.
OneEntryPerName ==
    /\ pc' = "lowered"
    /\ ir'.k = "Declaration"
    /\ Len(ir'.ch[1].ch) = Len(EntitiesOf(ast))
    /\ \A i \in DOMAIN EntitiesOf(ast) : ir'.ch[1].ch[i].n = EntitiesOf(ast)[i].ch[1].s
    /\ OnlyLocalScopeWritten
    /\ \A n \in Names :
          (\A i \in DOMAIN EntitiesOf(ast) : EntitiesOf(ast)[i].ch[1].s # n)
              => symbols'[scope][n] = symbols[scope][n]

C13_Step ==
    DeclarationLowered =>
        /\ OneEntryPerName
        /\ \A i \in DOMAIN EntitiesOf(ast) :
              symbols'[scope][EntitiesOf(ast)[i].ch[1].s] =
                  [SharedAttributes(ast) EXCEPT
                      !.shape = IF OwnShape(EntitiesOf(ast)[i]) # None
                                THEN OwnShape(EntitiesOf(ast)[i])
                                ELSE SharedShape(ast),
                      !.initial = OwnInitial(EntitiesOf(ast)[i])]

\* C13: a declaration statement of N names lowers to one Declaration node that
\* lists the N names in source order, and writes N entries in the scope, one
\* per name: the type, flags and intent of the statement, with the name's own
\* shape if it has one and the DIMENSION shape otherwise, and the name's own
\* initial value; what one name is written with is on no other name's entry.
C13_DeclarationEntries == [][C13_Step]_vars

\* `INTEGER, DIMENSION(10) :: foo, bar(5)` has been lowered: the entry of bar
\* has the shape (10) of the attribute, not its own (5).
C13_Witness ==
    /\ pc = "lowered"
    /\ ast.k = "Type_Declaration_Stmt"
    /\ SharedShape(ast) # None
    /\ Len(EntitiesOf(ast)) = 2
    /\ OwnShape(EntitiesOf(ast)[1]) = None
    /\ OwnShape(EntitiesOf(ast)[2]) # None
    /\ OwnShape(EntitiesOf(ast)[2]) # SharedShape(ast)
    /\ symbols[scope][EntitiesOf(ast)[2].ch[1].s].shape = SharedShape(ast)
    /\ symbols[scope][EntitiesOf(ast)[1].ch[1].s].shape = SharedShape(ast)

\* The names that the statement o gives the EXTERNAL attribute.
ExternalNamesOf(o) ==
    IF o.k = "External_Stmt" THEN {o.ch[2].ch[i].s : i \in DOMAIN o.ch[2].ch}
    ELSE {EntitiesOf(o)[i].ch[1].s : i \in DOMAIN EntitiesOf(o)}

\* A statement that gives names the EXTERNAL attribute is lowered by this step.
ExternalLowered ==
    /\ pc = "parsed"
    /\ pc' # "parsed"
    /\ \/ ast.k = "External_Stmt"
       \/ /\ ast.k = "Type_Declaration_Stmt"
          /\ \E i \in DOMAIN AttrsOf(ast) : AttrsOf(ast)[i].s = "EXTERNAL"

\* A return type is given for the name: by the type of the declaration that
\* has the attribute, or by the declaration of the name before the EXTERNAL
\* statement.
ReturnTypeGiven(name) ==
    \/ ast.k = "Type_Declaration_Stmt"
    \/ lookup(ActiveScope, name) # Unbound

\* name(1)
ReferenceTo(name) ==
    PNode("Part_Ref", "", <<Leaf("Name", name),
                            PNode("Section_Subscript_List", "",
                                  <<Leaf("Int_Literal_Constant", "1")>>)>>)

C14_Step ==
    ExternalLowered =>
        /\ pc' = "lowered"
        /\ \A n \in ExternalNamesOf(ast) :
              /\ symbols'[scope][n].dtype = "PROCEDURE"
              /\ symbols'[scope][n].is_function = ReturnTypeGiven(n)
              /\ visit_Part_Ref(ReferenceTo(n),
                                [id |-> scope, symbols |-> symbols', parents |-> parents']).k
                     = "InlineCall"

\* C14: after a type declaration with the EXTERNAL attribute, or an EXTERNAL
\* statement, each of its names, declared before or not, has in the scope an
\* entry of type PROCEDURE that is a function exactly when a return type was
\* given for it, and a reference name(1) lowered in that scope is a call.
C14_ExternalReclassified == [][C14_Step]_vars

\* `EXTERNAL foo` has been lowered in a scope that declared foo as REAL: the
\* entry of foo is marked external and still of type REAL, and foo(1) lowers
\* to an array reference.
C14_Witness ==
    /\ pc = "lowered"
    /\ ast.k = "External_Stmt"
    /\ "foo" \in ExternalNamesOf(ast)
    /\ symbols[scope]["foo"].dtype = "REAL"
    /\ "external" \in symbols[scope]["foo"].flags
    /\ visit_Part_Ref(ReferenceTo("foo"), ActiveScope).k = "Array"

(***************************************************************************)
(* Properties of the backends.                                             *)
(***************************************************************************)
IsAssignmentToken(tok) == tok \in {"=", "<=="}

\* C15: the streaming backend writes an assignment with <== exactly when the
\* type of its target is a streaming value with a shape that is not that of a
\* scalar, and with = otherwise; the Python backend always writes =.  The
\* line has one assignment token, after the target.
C15_StreamingAssignment ==
    (pc \in {"maxj", "python"} /\ ir.k = "Statement") =>
        /\ text[1] = ir.ch[1].n
        /\ text[2] = IF /\ pc = "maxj"
                        /\ "dfevar" \in TypeOf(ir.ch[1]).flags
                        /\ TypeOf(ir.ch[1]).shape \notin {None, Tuple(<<>>)}
                     THEN "<==" ELSE "="
        /\ Len(SelectSeq(text, IsAssignmentToken)) = 1

\* `foo = foo + 1` has been written by the streaming backend for a streaming
\* vector foo: foo <== foo + 1 ;
C15_Witness ==
    /\ pc = "maxj"
    /\ ir.k = "Statement"
    /\ ir.ch[1].n = "foo"
    /\ ir.ch[2].k = "Sum"
    /\ "dfevar" \in TypeOf(ir.ch[1]).flags
    /\ TypeOf(ir.ch[1]).shape = Tuple(<<Expr("IntLiteral", "10", <<>>)>>)
    /\ text = <<"foo", "<==", "foo", "+", "1", ";", "\n">>

IsVariableName(tok) == tok \in Names
IsEndOfLine(tok) == tok = "\n"

\* The variable passes the filter of the backend that wrote the text.
Emitted(var) ==
    IF pc = "maxj"
    THEN TypeOf(var).intent = "" \/ "dfevar" \in TypeOf(var).flags
    ELSE TypeOf(var).initial # None

\* C16: for a Declaration, the streaming backend writes one line for each
\* variable that has no intent or is a streaming value, the Python backend one
\* for each variable that has an initial value, in the order of the
\* declaration, and no line at all when no variable passes.
C16_DeclarationFilter ==
    (pc \in {"maxj", "python"} /\ ir.k = "Declaration") =>
        /\ SelectSeq(text, IsVariableName)
              = [i \in DOMAIN SelectSeq(ir.ch[1].ch, Emitted) |->
                    SelectSeq(ir.ch[1].ch, Emitted)[i].n]
        /\ Len(SelectSeq(text, IsEndOfLine)) = Len(SelectSeq(ir.ch[1].ch, Emitted))

\* The streaming backend has written the declaration of foo and bar, of which
\* foo is an argument that is not a streaming value: one line, for bar.
C16_Witness ==
    /\ pc = "maxj"
    /\ ir.k = "Declaration"
    /\ Len(ir.ch[1].ch) = 2
    /\ ir.ch[1].ch[1].n = "foo"
    /\ ir.ch[1].ch[2].n = "bar"
    /\ TypeOf(ir.ch[1].ch[1]).intent = "in"
    /\ "dfevar" \notin TypeOf(ir.ch[1].ch[1]).flags
    /\ TypeOf(ir.ch[1].ch[2]).intent = ""
    /\ TypeOf(ir.ch[1].ch[2]).initial = None
    /\ text = <<"int", "bar", ";", "\n">>

(***************************************************************************)
(* Properties of the expression search.                                    *)
(***************************************************************************)
\* The sub-expressions a node holds, in source order: the subscripts of an
\* array, the bounds and step given of a range, the parameters and the kind
\* expression of a cast, the function and the arguments of a call, the
\* operands of an operation.
NotNone(e) == e # None

SubExpressionsOf(e) ==
    CASE e.k = "RangeIndex" -> SelectSeq(e.ch, NotNone)
      [] e.k = "Cast" -> e.ch[1].ch \o SelectSeq(<<e.ch[2]>>, IsExpression)
      [] e.k = "InlineCall" -> <<e.ch[1]>> \o e.ch[2].ch \o e.ch[3].ch
      [] OTHER -> e.ch

\* Every node of the tree, the sub-expressions of a node before the node.
RECURSIVE Occurrences(_)
RECURSIVE OccurrencesOfAll(_)
OccurrencesOfAll(es) ==
    IF es = <<>> THEN <<>> ELSE Occurrences(Head(es)) \o OccurrencesOfAll(Tail(es))
Occurrences(e) == OccurrencesOfAll(SubExpressionsOf(e)) \o <<e>>

Accepted(e) == query(pc, e)

\* C18: a search returns the nodes of the tree that the query accepts, each
\* occurrence once and nothing else, the sub-expressions of a node before the
\* node; subscripts, range bounds and steps, cast parameters and kinds and
\* call arguments are searched too.
C18_SearchComplete ==
    pc \in {"Expression", "Variable", "InlineCall"} =>
        retrieved = SelectSeq(Occurrences(ir), Accepted)

\* The variables of bar(foo:foo:baz) have been retrieved: foo twice and baz,
\* reached through the range of the subscript, then bar.
C18_Witness ==
    /\ pc = "Variable"
    /\ ir = Expr("Array", "bar",
                 <<Expr("RangeIndex", "", <<Expr("Variable", "foo", <<>>),
                                            Expr("Variable", "foo", <<>>),
                                            Expr("Variable", "baz", <<>>)>>)>>)
    /\ retrieved = <<Expr("Variable", "foo", <<>>), Expr("Variable", "foo", <<>>),
                     Expr("Variable", "baz", <<>>), ir>>

(***************************************************************************)
(* Properties of the single-expression entry point.                        *)
(***************************************************************************)
IsTypedSymbol(e) == e.k \in {"Variable", "Array"}
BoundToScope(e) == "scope" \in DOMAIN e /\ e.scope = scope
IsParenthesised(e) == e.k \in {"ParenthesisedAdd", "ParenthesisedMul", "ParenthesisedPow"}

\* The tree without the scopes of its symbols.
RECURSIVE Unscoped(_)
Unscoped(e) == Expr(e.k, e.n, [i \in DOMAIN e.ch |-> Unscoped(e.ch[i])])

\* The entry point returns the lowering of the source as it stands (marked as
\* parenthesised only for a source between parentheses), with foo(...) a call
\* exactly when the scope given resolves foo to a procedure.
LoweredAsGiven ==
    /\ Unscoped(ir) = visit(ast, ActiveScope)
    /\ IsParenthesised(ir) => ast.k = "Parenthesis"
    /\ ast.k = "Part_Ref" =>
          (ir.k = "InlineCall" <=> lookup(ActiveScope, "foo").dtype = "PROCEDURE")

EverySymbolBound ==
    \A i \in DOMAIN SelectSeq(Occurrences(ir), IsTypedSymbol) :
        BoundToScope(SelectSeq(Occurrences(ir), IsTypedSymbol)[i])

\* C17: parse_fparser_expression returns the lowered tree of the expression
\* given, without the parentheses it was parsed between, its names
\* disambiguated against the scope given, and every typed symbol of the tree
\* bound to that scope.
C17_ExpressionEntryPoint ==
    pc = "rescoped" => LoweredAsGiven /\ EverySymbolBound

\* foo(bar) has been lowered for the routine scope, where foo is an array: the
\* Array foo is bound to the scope and its subscript bar is not.
C17_Witness ==
    /\ pc = "rescoped"
    /\ scope = RoutineScope
    /\ ast = PNode("Part_Ref", "", <<Leaf("Name", "foo"),
                   PNode("Section_Subscript_List", "", <<Leaf("Name", "bar")>>)>>)
    /\ ir.k = "Array"
    /\ BoundToScope(ir)
    /\ ir.ch[1] = Expr("Variable", "bar", <<>>)
    /\ ~BoundToScope(ir.ch[1])

(***************************************************************************)
(* Properties of the linter's dispatch.                                    *)
(***************************************************************************)
\* The calls of the entry points for an entity, in the order of the dispatch:
\* a subroutine, then what each of its members leads to; a module, then what
\* each of its subroutines leads to; a file, then its modules, then what each
\* of its subroutines leads to.
RECURSIVE DispatchOrder(_)
RECURSIVE DispatchOrderOfEach(_)
DispatchOrderOfEach(items) ==
    IF items = <<>> THEN <<>>
    ELSE DispatchOrder(Head(items)) \o DispatchOrderOfEach(Tail(items))
DispatchOrder(o) ==
    CASE o.k = "Subroutine" -> <<(<<"check_subroutine", o.name>>)>> \o DispatchOrderOfEach(o.members)
      [] o.k = "Module" -> <<(<<"check_module", o.name>>)>> \o DispatchOrderOfEach(o.subroutines)
      [] o.k = "SourceFile" ->
            <<(<<"check_file", o.name>>)>>
                \o [i \in DOMAIN o.modules |-> <<"check_module", o.modules[i].name>>]
                \o DispatchOrderOfEach(o.subroutines)

\* The entities below o, o included, and the members below a subroutine.
RECURSIVE CheckedEntities(_)
CheckedEntities(o) ==
    {o.name}
    \cup (IF o.k = "SourceFile" THEN {o.modules[i].name : i \in DOMAIN o.modules} ELSE {})
    \cup UNION {CheckedEntities(sub) :
                   sub \in (IF o.k = "Subroutine"
                            THEN {o.members[i] : i \in DOMAIN o.members}
                            ELSE {o.subroutines[i] : i \in DOMAIN o.subroutines})}

CalledOnce(name) == Cardinality({i \in DOMAIN calls : calls[i][2] = name}) = 1
IndexOf(name) == CHOOSE i \in DOMAIN calls : calls[i][2] = name
IsMemberOf(member, parent) ==
    /\ Len(member) > Len(parent) + 1
    /\ SubSeq(member, 1, Len(parent) + 1) = parent \o "%"

\* C19: check calls the entry points in the order of the dispatch: for a
\* file check_file, then check_module for each module in order, then each
\* subroutine; for a module check_module, then each subroutine; for a
\* subroutine check_subroutine, then each member.  When it returns every
\* entity has been checked exactly once, the modules before the subroutines
\* and a subroutine before its members.
C19_DispatchOrder ==
    /\ pc \in {"linting", "linted"} =>
          /\ Len(calls) <= Len(DispatchOrder(ir))
          /\ calls = SubSeq(DispatchOrder(ir), 1, Len(calls))
    /\ pc = "linted" =>
          /\ {calls[i][2] : i \in DOMAIN calls} = CheckedEntities(ir)
          /\ \A i \in DOMAIN calls : CalledOnce(calls[i][2])
          /\ \A i, j \in DOMAIN calls :
                (calls[i][1] = "check_module" /\ calls[j][1] = "check_subroutine") => i < j
          /\ \A i, j \in DOMAIN calls :
                IsMemberOf(calls[j][2], calls[i][2]) => i < j

\* A rule has been run on a file with the modules m and n and a routine r
\* that has a member: check_file, the two modules, then r, its member and the
\* subroutines of the modules.
C19_Witness ==
    /\ pc = "linted"
    /\ ir.k = "SourceFile"
    /\ Len(ir.modules) = 2
    /\ Len(ir.modules[1].subroutines) = 1
    /\ Len(calls) = 7
    /\ calls[1] = <<"check_file", "f">>
    /\ calls[2] = <<"check_module", "m">>
    /\ calls[3] = <<"check_module", "n">>
    /\ calls[4] = <<"check_subroutine", "r">>
    /\ calls[5] = <<"check_subroutine", "r%1">>
    /\ calls[6] = <<"check_subroutine", "m:1">>
    /\ calls[7] = <<"check_subroutine", "n:1">>

(***************************************************************************)
(* Properties of ASSOCIATE constructs.                                     *)
(***************************************************************************)
\* The selector of the construct, and whether it is a variable, plain or
\* subscripted, that no scope of the chain defines.
SelectorOf(o) == o.ch[1].ch[2].ch[1].ch[3]
UnresolvedSelector ==
    /\ ast.k = "Associate_Construct"
    /\ SelectorOf(ast).k \in {"Name", "Part_Ref"}
    /\ lookup(ActiveScope, "foo") = Unbound

\* C20: an ASSOCIATE construct whose selector is a variable, plain or
\* subscripted, that no scope of the chain defines is lowered without an
\* exception, and the associate name is bound to a DEFERRED entry.
C20_UnresolvedSelector ==
    (pc \in {"lowered", "failed"} /\ UnresolvedSelector) =>
        /\ pc = "lowered"
        /\ exc = NoExc
        /\ symbols[scope]["baz"] # Unbound
        /\ symbols[scope]["baz"].dtype = "DEFERRED"

\* ASSOCIATE (baz => foo(1)) has been lowered where no scope defines foo: the
\* lowering ended with an AttributeError and baz has no entry.
C20_Witness ==
    /\ pc = "failed"
    /\ UnresolvedSelector
    /\ SelectorOf(ast).k = "Part_Ref"
    /\ exc = "AttributeError"
    /\ symbols[scope]["baz"] = Unbound

(***************************************************************************)
(* Properties of references and scopes.                                    *)
(***************************************************************************)

\* The entry a name resolves to from scope id, written out for the chains of
\* the model (a scope, its parent, its grandparent).
Resolved(tabs, pars, id, name) ==
    IF tabs[id][name] # Unbound THEN tabs[id][name]
    ELSE IF pars[id] = NoScope THEN Unbound
    ELSE IF tabs[pars[id]][name] # Unbound THEN tabs[pars[id]][name]
    ELSE IF pars[pars[id]] = NoScope THEN Unbound
    ELSE tabs[pars[pars[id]]][name]

\* The subscripts of a part-ref, lowered one by one.
LoweredSubscripts(o) == [i \in DOMAIN o.ch[2].ch |-> visit(o.ch[2].ch[i], ActiveScope)]

\* C1: a part-ref with a subscript list whose name resolves, through the chain
\* of the active scope, to a PROCEDURE symbol lowers to an inline call of the
\* bare name with the subscripts as its positional arguments and no keyword
\* argument; with any other symbol, or none, it lowers to an array reference
\* with the subscripts as indices; and the lowering never fails.
C1_ReferenceDisambiguation ==
    (pc # "parsed" /\ ast.k = "Part_Ref") =>
        LET name == ast.ch[1].s
            _type == Resolved(symbols, parents, scope, name)
        IN  /\ pc = "lowered"
            /\ exc = NoExc
            /\ IF _type.dtype = "PROCEDURE"
               THEN ir = Expr("InlineCall", "",
                              <<Expr("Variable", name, <<>>), Tuple(LoweredSubscripts(ast)),
                                Tuple(<<>>)>>)
               ELSE ir = Expr("Array", name, LoweredSubscripts(ast))

\* foo(1) lowered in the routine scope, where foo is a procedure of the module
\* scope only: the call is found through the parent link.
C1_Witness ==
    /\ pc = "lowered"
    /\ ast.k = "Part_Ref"
    /\ ast.ch[1].s = "foo"
    /\ ast.ch[2].ch = <<Leaf("Int_Literal_Constant", "1")>>
    /\ scope = RoutineScope
    /\ symbols[RoutineScope]["foo"] = Unbound
    /\ symbols[ModuleScope]["foo"].dtype = "PROCEDURE"
    /\ ir.k = "InlineCall"

\* The names declared by the components of a derived-type definition.
FieldsOf(o) ==
    LET part == get_child(o, "Component_Part")
    IN  IF part = 0 THEN {}
        ELSE {o.ch[part].ch[i].ch[3].ch[1].ch[1].s : i \in DOMAIN o.ch[part].ch}

TypeNameOf(o) == o.ch[get_child(o, "Derived_Type_Stmt")].ch[2].s

C3_Step ==
    (pc = "parsed" /\ ast.k = "Derived_Type_Def" /\ pc' = "lowered") =>
        LET child == Len(symbols) + 1
            typedef == ir'.ch[Len(ir'.ch)]
        IN  \* one scope is created, a child of the current one
            /\ Len(symbols') = child
            /\ parents' = Append(parents, scope)
            \* the fields are defined in the child, and nothing else is
            /\ \A n \in Names : (symbols'[child][n] # Unbound) <=> (n \in FieldsOf(ast))
            \* the tables that existed are unchanged, but for the type's entry
            /\ \A id \in DOMAIN symbols : \A n \in Names :
                  (id # scope \/ n # TypeNameOf(ast)) => symbols'[id][n] = symbols[id][n]
            /\ symbols'[scope][TypeNameOf(ast)] = DerivedType(TypeNameOf(ast), typedef)
            /\ typedef.k = "TypeDef"
            /\ typedef.n = TypeNameOf(ast)
            /\ typedef.ch[1] = ScopeRef(child)
            \* a lookup from the child: its own entry, else the chain's, else none
            /\ \A n \in Names :
                  lookup([id |-> child, symbols |-> symbols', parents |-> parents'], n)
                     = Resolved(symbols', parents', child, n)

\* C3: lowering a derived-type definition creates one child scope of the
\* current scope; the fields of the body are defined in that child scope only;
\* the tables that existed are unchanged except for the entry of the type's
\* name in the current scope, which becomes a DERIVED type that refers to the
\* TypeDef returned, itself holding the child scope; and a lookup from the child
\* scope yields the child's entry, else the nearest enclosing one, else nothing.
C3_ScopeIsolation == [][C3_Step]_vars

\* A type with a field foo lowered in the routine scope while foo is also a
\* name of that scope: the field shadows it in the child scope only.
C3_Witness ==
    /\ pc = "lowered"
    /\ ast.k = "Derived_Type_Def"
    /\ TypeNameOf(ast) = "t"
    /\ "foo" \in FieldsOf(ast)
    /\ scope = RoutineScope
    /\ Len(symbols) = 3
    /\ symbols[RoutineScope]["foo"].dtype = "PROCEDURE"
    /\ symbols[3]["foo"].dtype \in FieldTypes
    /\ symbols[RoutineScope]["t"].dtype = "DERIVED"

(***************************************************************************)
(* Properties of block extraction.                                         *)
(***************************************************************************)

\* The environment the lowering started from: the handlers of the block
\* constructs leave the tables of an IF construct as they are.
Env0 == [r |-> None, symbols |-> symbols, parents |-> parents, warnings |-> 0]

\* The siblings of o lowered one by one.
LoweredEach(children) == visit_each(children, scope, Env0).r

\* The markers of an IF construct: the positions of its branch and end
\* statements among its children.
IfMarkers(o) ==
    {i \in DOMAIN o.ch : o.ch[i].k \in {"If_Then_Stmt", "Else_If_Stmt", "Else_Stmt", "End_If_Stmt"}}

\* The siblings between the marker at p and the next marker.
Segment(o, p) ==
    LET next == CHOOSE q \in IfMarkers(o) :
                    q > p /\ \A r \in IfMarkers(o) : r > p => q <= r
    IN  Slice(o.ch, p + 1, next - 1)

\* The conditional branches of the source, in order: the positions of IF and
\* ELSE IF.
RECURSIVE SourceBranches(_, _)
SourceBranches(o, i) ==
    IF i > Len(o.ch) THEN <<>>
    ELSE (IF o.ch[i].k \in {"If_Then_Stmt", "Else_If_Stmt"} THEN <<i>> ELSE <<>>)
         \o SourceBranches(o, i + 1)

\* The else body of the source: what follows ELSE, nothing without an ELSE.
SourceElse(o) ==
    IF \E i \in DOMAIN o.ch : o.ch[i].k = "Else_Stmt"
    THEN Segment(o, CHOOSE i \in DOMAIN o.ch : o.ch[i].k = "Else_Stmt")
    ELSE <<>>

\* The Conditionals met by walking the else bodies from node, as long as the
\* node says that a further branch follows.
RECURSIVE ElseChain(_)
ElseChain(node) ==
    IF node.k = "Conditional" /\ node.n = "has_elseif" /\ Len(node.ch[3].ch) = 1
    THEN <<node>> \o ElseChain(node.ch[3].ch[1])
    ELSE <<node>>

\* C2: an IF construct with conditions C1..Cn, bodies B1..Bn and else body E
\* lowers to its leading comments followed by one Conditional for C1 and B1;
\* walking the else bodies meets exactly n Conditionals, the i-th for Ci and
\* Bi, each but the last with has_elseif set and the next Conditional as its
\* whole else body, the last with has_elseif unset and E as its else body.
C2_ConditionalChain ==
    (pc = "lowered" /\ ast.k = "If_Construct") =>
        LET branches == SourceBranches(ast, 1)
            n == Len(branches)
            lead == Slice(ast.ch, 1, branches[1] - 1)
            walk == ElseChain(ir.ch[Len(ir.ch)])
        IN  /\ ir.k = "tuple"
            /\ Len(ir.ch) = Len(lead) + 1
            /\ Slice(ir.ch, 1, Len(lead)) = LoweredEach(lead).ch
            /\ Len(walk) = n
            /\ \A i \in 1..n :
                  /\ walk[i].k = "Conditional"
                  /\ walk[i].ch[1] = LoweredEach(<<ast.ch[branches[i]].ch[1]>>).ch[1]
                  /\ walk[i].ch[2] = LoweredEach(Segment(ast, branches[i]))
                  /\ (walk[i].n = "has_elseif") <=> (i < n)
                  /\ i < n => walk[i].ch[3] = Tuple(<<walk[i + 1]>>)
            /\ walk[n].ch[3] = LoweredEach(SourceElse(ast))

\* IF / ELSE IF / ELSE with a body in every branch, the first of which is
\* itself an IF construct with an ELSE IF of its own.
C2_Witness ==
    /\ pc = "lowered"
    /\ ast.k = "If_Construct"
    /\ Len(SourceBranches(ast, 1)) = 2
    /\ Segment(ast, SourceBranches(ast, 1)[1]) = <<NestedIf>>
    /\ Len(Segment(ast, SourceBranches(ast, 1)[2])) = 1
    /\ Len(SourceElse(ast)) = 1
    /\ ast.ch[1].k = "Comment"
    /\ Len(ElseChain(ir.ch[Len(ir.ch)])) = 2

\* The end marker of a block construct.
EndMarker(cls) ==
    CASE cls = "If_Construct" -> "End_If_Stmt"
      [] cls = "Case_Construct" -> "End_Select_Stmt"
      [] cls = "Associate_Construct" -> "End_Associate_Stmt"
      [] cls = "Interface_Block" -> "End_Interface_Stmt"
      [] OTHER -> "none"

\* A sibling is left after the end marker of the construct o.
StructuralViolation(o) ==
    /\ EndMarker(o.k) # "none"
    /\ \E i \in DOMAIN o.ch : o.ch[i].k = EndMarker(o.k) /\ i < Len(o.ch)

\* The tokens create_operation has a case for.
KnownOperators ==
    {"*", "/", "+", "-", "**", "//", "==", "/=", ">", "<", ">=", "<=",
     ".and.", ".or.", ".not.", ".eqv.", ".neqv.", ".eq.", ".ne.", ".gt.", ".lt.", ".ge.", ".le."}

\* An operation of o has an operator token that matches no known case.
RECURSIVE MalformedOperator(_)
MalformedOperator(o) ==
    \/ /\ o.k \in {"Mult_Operand", "Add_Operand", "And_Operand", "Or_Operand", "Equiv_Operand",
                  "Level_2_Expr", "Level_2_Unary_Expr", "Level_3_Expr", "Level_4_Expr",
                  "Level_5_Expr"}
       /\ lower(o.s) \notin KnownOperators
    \/ \E i \in DOMAIN o.ch : MalformedOperator(o.ch[i])

\* C6: a sibling left after the end marker of an IF, SELECT CASE, ASSOCIATE or
\* INTERFACE construct, and an operator token without a case, end the lowering
\* with an error (AssertionError, RuntimeError) whatever the strict mode is: no
\* IR is returned and no warning is logged in place of the error.
C6_FatalWhateverStrict ==
    (pc # "parsed" /\ (StructuralViolation(ast) \/ MalformedOperator(ast))) =>
        /\ pc = "failed"
        /\ ir = None
        /\ warnings = 0
        /\ StructuralViolation(ast) => exc = "AssertionError"
        /\ MalformedOperator(ast) => exc = "RuntimeError"

\* With strict mode off: an IF construct with a comment after its END IF has
\* been refused with an AssertionError.
C6_Witness ==
    /\ pc = "failed"
    /\ ~strict
    /\ ast.k = "If_Construct"
    /\ StructuralViolation(ast)
    /\ exc = "AssertionError"

(***************************************************************************)
(* Properties of the expression algebra.                                   *)
(***************************************************************************)
RECURSIVE SumOver(_, _)
\* The sum of f[i] over the indices of the sequence f.
SumOver(f, i) == IF i = 0 THEN 0 ELSE f[i] + SumOver(f, i - 1)

\* The number of minus signs in a parse tree.
RECURSIVE CountMinus(_)
CountMinus(o) ==
    (IF o.s = "-" /\ o.k \in {"Level_2_Expr", "Level_2_Unary_Expr"} THEN 1 ELSE 0)
    + SumOver([i \in DOMAIN o.ch |-> CountMinus(o.ch[i])], Len(o.ch))

\* The number of occurrences of Python's -1 in an expression.
RECURSIVE CountMinusOne(_)
CountMinusOne(e) ==
    (IF IsMinusOne(e) THEN 1 ELSE 0)
    + SumOver([i \in DOMAIN e.ch |-> CountMinusOne(e.ch[i])], Len(e.ch))

\* Every -1 of an expression is the first of the two factors of a product.
RECURSIVE MinusOneLeadsProducts(_)
MinusOneLeadsProducts(e) ==
    /\ ~IsMinusOne(e)
    /\ \A i \in DOMAIN e.ch :
          IF IsMinusOne(e.ch[i])
          THEN i = 1 /\ IsInstance(e, "Product") /\ Len(e.ch) = 2
          ELSE MinusOneLeadsProducts(e.ch[i])

\* C9: create_operation maps a binary minus to Sum(a, Product(-1, b)) and a unary
\* minus to Product(-1, a), operands in source order; the lowered tree holds one
\* -1 per minus sign of the source, each the leading factor of a two-factor product.
C9_SubtractionCanonical ==
    pc = "lowered" =>
        /\ (ast.k = "Level_2_Expr" /\ ast.s = "-") =>
              ir = Expr("Sum", "", <<visit(ast.ch[1], ActiveScope),
                                     Expr("Product", "", <<MinusOne, visit(ast.ch[2], ActiveScope)>>)>>)
        /\ (ast.k = "Level_2_Unary_Expr" /\ ast.s = "-") =>
              ir = Expr("Product", "", <<MinusOne, visit(ast.ch[1], ActiveScope)>>)
        /\ CountMinusOne(ir) = CountMinus(ast)
        /\ MinusOneLeadsProducts(ir)

\* A lowered binary subtraction whose left operand is itself a subtraction.
C9_Witness ==
    /\ pc = "lowered"
    /\ ast.k = "Level_2_Expr" /\ ast.s = "-"
    /\ ast.ch[1].k = "Level_2_Expr" /\ ast.ch[1].s = "-"
    /\ ir.k = "Sum" /\ ir.ch[2] = Expr("Product", "", <<MinusOne, Expr("IntLiteral", "1", <<>>)>>)

\* No Sum has a plain Sum among its operands, no Product a plain Product.
RECURSIVE Flattened(_)
Flattened(e) ==
    /\ IsInstance(e, "Sum") => \A i \in DOMAIN e.ch : e.ch[i].k # "Sum"
    /\ IsInstance(e, "Product") => \A i \in DOMAIN e.ch : e.ch[i].k # "Product"
    /\ \A i \in DOMAIN e.ch : Flattened(e.ch[i])

\* C10: every Sum and Product produced by lowering stores a flattened operand list.
C10_FlattenedOperands == pc = "lowered" => Flattened(ir)

ParenthesisedKinds == {"ParenthesisedAdd", "ParenthesisedMul", "ParenthesisedPow",
                       "ParenthesisedDiv", "ParenthesisedCmp", "ParenthesisedLogical"}

OperationClasses == {"Mult_Operand", "Add_Operand", "Level_2_Expr", "Level_2_Unary_Expr",
                     "Level_4_Expr", "And_Operand", "Or_Operand"}

\* C8: an explicitly parenthesised operation of any kind lowers to a node that
\* records the parentheses, and an expression without parentheses never does.
C8_ParenthesesPreserved ==
    pc = "lowered" =>
        /\ (ast.k = "Parenthesis" /\ ast.ch[1].k \in OperationClasses)
              => ir.k \in ParenthesisedKinds
        /\ ast.k # "Parenthesis" => ir.k \notin ParenthesisedKinds

\* The part of C8 the lowering does keep: sums, products and powers.
C8_Witness ==
    /\ pc = "lowered"
    /\ ast.k = "Parenthesis" /\ ast.ch[1].k = "Level_2_Expr"
    /\ ir.k = "ParenthesisedAdd"

(***************************************************************************)
(* Properties of the rendering of sums.                                    *)
(***************************************************************************)
\* An operand that map_sum sees as a product led by -1.
IsNegProduct(e) == IsInstance(e, "Product") /\ Len(e.ch) >= 2 /\ IsMinusOne(e.ch[1])

\* The factors of e that remain without its leading -1.
Remaining(e) == IF Len(e.ch) = 2 THEN e.ch[2] ELSE Expr("Product", "", Tail(e.ch))

\* The term an operand contributes: a subtracted term for a product led by -1,
\* an added term otherwise; the first term carries no plus sign.
SignedTerm(e, first) ==
    IF IsNegProduct(e) THEN <<"-">> \o rec(Remaining(e), PREC_PRODUCT)
    ELSE (IF first THEN <<>> ELSE <<"+">>) \o rec(e, PREC_SUM)

RECURSIVE SignedTerms(_, _)
SignedTerms(es, first) ==
    IF es = <<>> THEN <<>>
    ELSE SignedTerm(Head(es), first) \o SignedTerms(Tail(es), FALSE)

NotZeroLiteral(e) == ~IsZeroLiteral(e)

\* Some sum inside e has no operand other than literal zeros.
RECURSIVE HasAllZeroSum(_)
HasAllZeroSum(e) ==
    \/ IsInstance(e, "Sum") /\ SelectSeq(e.ch, NotZeroLiteral) = <<>>
    \/ \E i \in DOMAIN e.ch : HasAllZeroSum(e.ch[i])

RECURSIVE Mentions(_, _)
\* The parse tree o holds a node of class k, or a literal or name s = k.
Mentions(o, k) == o.k = k \/ o.s = k \/ \E i \in DOMAIN o.ch : Mentions(o.ch[i], k)

\* C7 as stated: every operand of a rendered Sum appears in the text, a product
\* led by -1 as a subtracted term and any other operand as an added term, in
\* operand order.
C7_EveryOperandRendered ==
    (pc = "printed" /\ ir.k = "Sum") => text = SignedTerms(ir.ch, TRUE)

\* C7 as amended: the operands of a rendered Sum that are not literal zeros appear
\* in operand order, a product led by -1 as a subtracted term without its -1 and
\* any other as an added term; literal-zero operands are left out, and rendering
\* raises when a sum has no other operand.  A source made of names, non-zero
\* literals, products, additions and subtractions without parentheses is
\* rendered as it was written, with no -1 in the text.
C7_SubtractionRoundTrip ==
    /\ (pc = "printed" /\ ir.k = "Sum") =>
          text = SignedTerms(SelectSeq(ir.ch, NotZeroLiteral), TRUE)
    /\ (pc = "printed" /\ ast.k = "Level_2_Expr"
            /\ ~Mentions(ast, "0") /\ ~Mentions(ast, "Parenthesis")) =>
          /\ text = tostr(ast)
          /\ \A i \in DOMAIN text : text[i] # "-1"
    /\ (pc = "failed" /\ ir # None) => (exc = "IndexError" /\ HasAllZeroSum(ir))
    /\ pc = "printed" => ~HasAllZeroSum(ir)

\* The source a - b - 1, lowered and rendered as a - b - 1.
C7_Witness ==
    /\ pc = "printed"
    /\ tostr(ast) = <<"a", "-", "b", "-", "1">>
    /\ ir.k = "Sum" /\ IsNegProduct(ir.ch[2])
    /\ text = <<"a", "-", "b", "-", "1">>

(***************************************************************************)
(* Properties of SELECT CASE constructs.                                   *)
(***************************************************************************)
\* The positions of the CASE statements of the source, those of the CASE
\* statements with values and that of CASE DEFAULT (0 without one).
CaseMarkers(o) == indices(o.ch, "Case_Stmt", 1)
IsDefault(o, p) == o.ch[p].ch[1].ch[1] = PyNone
ValueCases(o) == SelectSeq(CaseMarkers(o), LAMBDA p : ~IsDefault(o, p))
DefaultCases(o) == SelectSeq(CaseMarkers(o), LAMBDA p : IsDefault(o, p))

\* The siblings after the CASE statement at p, up to the next CASE statement
\* or END SELECT.
CaseBody(o, p) ==
    Slice(o.ch, p + 1,
          (CHOOSE q \in {r \in DOMAIN o.ch : o.ch[r].k \in {"Case_Stmt", "End_Select_Stmt"}} :
               q > p /\ \A r \in (p + 1)..(q - 1) :
                           o.ch[r].k \notin {"Case_Stmt", "End_Select_Stmt"}) - 1)

\* C21: a SELECT CASE construct with comments at any position among its
\* siblings, also between SELECT CASE and the first CASE, is lowered without
\* an assertion failure to its leading comments and one MultiConditional in
\* which every CASE value is paired with the body that follows it and the
\* body of CASE DEFAULT is the else body.
C21_CommentsInterleave ==
    (pc # "parsed" /\ ast.k = "Case_Construct") =>
        /\ pc = "lowered"
        /\ ir.k = "tuple"
        /\ ir.ch[Len(ir.ch)].k = "MultiConditional"
        /\ LET node == ir.ch[Len(ir.ch)]
               cases == ValueCases(ast)
           IN  /\ Len(node.ch[2].ch) = Len(cases)
               /\ Len(node.ch[3].ch) = Len(cases)
               /\ \A i \in DOMAIN cases :
                     /\ node.ch[2].ch[i] = LoweredEach(<<ast.ch[cases[i]]>>).ch[1]
                     /\ node.ch[3].ch[i] = LoweredEach(CaseBody(ast, cases[i]))
               /\ node.ch[4] = IF DefaultCases(ast) = <<>> THEN None
                               ELSE LoweredEach(CaseBody(ast, DefaultCases(ast)[1]))

\* SELECT CASE (x) / ! between / CASE (1) / WRITE / CASE DEFAULT / WRITE /
\* END SELECT has been handed to the lowering, which ended with the
\* assertion on the position of the first CASE statement.
C21_Witness ==
    /\ pc = "failed"
    /\ exc = "AssertionError"
    /\ ast.k = "Case_Construct"
    /\ ast.ch[1].k = "Select_Case_Stmt"
    /\ ast.ch[2].k = "Comment"
    /\ Len(ValueCases(ast)) = 1
    /\ Len(DefaultCases(ast)) = 1

(***************************************************************************)
(* Properties of DO constructs.                                            *)
(***************************************************************************)
\* The DO statement of the construct and the statement that closes it, which
\* is the last of its children.
DoStmtOf(o) == do_stmt_index(o.ch, 1)
ClosingOf(o) == Len(o.ch)
ClosedByEndDo(o) == o.ch[ClosingOf(o)].k = "End_Do_Stmt"
LabelsMatch(o) == item_label(o.ch[ClosingOf(o)]) = o.ch[DoStmtOf(o)].ch[2].s
IsDoConstruct(o) == o.k \in {"Block_Nonlabel_Do_Construct", "Block_Label_Do_Construct"}

\* The loop node is flagged exactly when END DO closes the construct; a
\* construct closed by CONTINUE under another label is not lowered at all.
LoopTermination ==
    /\ pc = "lowered" => (ir.ch[Len(ir.ch)].n = "has_end_do") <=> ClosedByEndDo(ast)
    /\ pc = "lowered" => ClosedByEndDo(ast) \/ LabelsMatch(ast)
    /\ pc = "failed" => /\ exc = "AssertionError"
                        /\ ~ClosedByEndDo(ast)
                        /\ ~LabelsMatch(ast)

\* C22 as stated: a DO construct is lowered to a loop node whose has_end_do
\* flag is set exactly when END DO closes it; otherwise a CONTINUE closes it,
\* whose label is the label of the loop, and a mismatch ends the lowering
\* with an assertion failure.  The body of the loop is the siblings strictly
\* between the DO statement and the closing statement, in source order.
C22_BodyExcludesClosing ==
    (pc # "parsed" /\ IsDoConstruct(ast)) =>
        /\ LoopTermination
        /\ pc = "lowered" =>
              ir.ch[Len(ir.ch)].ch[3]
                  = LoweredEach(Slice(ast.ch, DoStmtOf(ast) + 1, ClosingOf(ast) - 1))

\* C22, amended: the flag and the assertion are as stated; the body is the
\* siblings after the DO statement up to END DO, which is left out, and for
\* a loop that a labelled CONTINUE closes it is the siblings after the DO
\* statement up to and including that CONTINUE.
C22_LoopTermination ==
    (pc # "parsed" /\ IsDoConstruct(ast)) =>
        /\ LoopTermination
        /\ pc = "lowered" =>
              ir.ch[Len(ir.ch)].ch[3]
                  = LoweredEach(Slice(ast.ch, DoStmtOf(ast) + 1,
                                      IF ClosedByEndDo(ast) THEN ClosingOf(ast) - 1
                                      ELSE ClosingOf(ast)))

\* DO 10 i = 1, n / WRITE / 10 CONTINUE has been lowered to a Loop without
\* the flag, whose body is the WRITE followed by the CONTINUE.
C22_Witness ==
    /\ pc = "lowered"
    /\ ast.k = "Block_Label_Do_Construct"
    /\ ast.ch[ClosingOf(ast)].k = "Continue_Stmt"
    /\ LabelsMatch(ast)
    /\ ir.ch[Len(ir.ch)].k = "Loop"
    /\ ir.ch[Len(ir.ch)].n = ""
    /\ Len(ir.ch[Len(ir.ch)].ch[3].ch) = 2
    /\ ir.ch[Len(ir.ch)].ch[3].ch[2] = Expr("Intrinsic", "", Text(<<"CONTINUE">>))

(***************************************************************************)
(* Properties of component access chains.                                  *)
(***************************************************************************)
\* The name of a part and its subscripts as the lowering gives them.
PartName(part) == IF part.k = "Part_Ref" THEN part.ch[1].s ELSE part.s
PartDimensions(part) ==
    IF part.k = "Part_Ref" THEN visit(part.ch[2], ActiveScope).ch ELSE <<>>

\* p1%...%pn, the names of the first n parts joined by %.
RECURSIVE QualifiedName(_, _)
QualifiedName(parts, n) ==
    IF n = 1 THEN PartName(parts[1])
    ELSE QualifiedName(parts, n - 1) \o "%" \o PartName(parts[n])

\* The nodes met from a variable by following the parent references, the
\* variable first.
RECURSIVE Ancestry(_)
Ancestry(var) ==
    IF "parent" \in DOMAIN var THEN <<var>> \o Ancestry(var.parent) ELSE <<var>>

IsInside(q, p) == Len(p) < Len(q) /\ SubSeq(q, 1, Len(p)) = p

Generated == pc \in {"fortran", "maxj", "python"}
Entries == {i \in DOMAIN calls : calls[i].ev = "enter"}
Exits == {i \in DOMAIN calls : calls[i].ev = "exit"}
ClassAt(p) == calls[CHOOSE i \in Entries : calls[i].path = p].k

\* Every handler is left at the depth it was entered at, no handler is
\* entered or left below the depth the emitter started at, and the emitter is
\* back at that depth in the end.
DepthBalanced ==
    /\ \A i \in Entries : \E j \in Exits : /\ j > i
                                           /\ calls[j].path = calls[i].path
                                           /\ calls[j].depth = calls[i].depth
    /\ \A i \in DOMAIN calls : calls[i].depth >= 0
    /\ depth = 0
    /\ self = NoInstance

\* The lines that open and close the block at a path, and the handlers
\* entered for what the block holds.
MarkerLines(roles) == {i \in DOMAIN text : text[i].role \in roles}
Deeper(h, e) == IsInside(calls[e].path, text[h].path) => calls[e].depth > text[h].depth

\* The body of an inline IF, which FortranCodegen writes on the line of the
\* IF itself.
InInlineBody(q) == \E h \in MarkerLines({"inline"}) : IsInside(q, text[h].path)

\* The routines and modules of FortranCodegen.
IsFortranUnit(p) == pc = "fortran" /\ ClassAt(p) \in {"Subroutine", "Module"}

LastCall == calls[Len(calls)]

ProcessedOnceStep ==
    /\ \A routine \in DOMAIN ir :
          /\ routine \in self._processed =>
                /\ ir'[routine] = ir[routine]
                /\ routine \in self'._processed
          /\ routine \in self'._processed \ self._processed =>
                /\ exc' = NoExc
                /\ calls'[Len(calls')].routine = routine
                /\ calls'[Len(calls')].exc = NoExc
          /\ calls'[Len(calls')].routine # routine => ir'[routine] = ir[routine]
    /\ calls'[Len(calls')].exc = NoExc =>
          calls'[Len(calls')].routine \in self'._processed

\* C25: once a call of transform_subroutine on a routine has returned, the
\* routine is recorded as processed and no later call on it, whatever its
\* role and arguments, changes it; a routine is recorded only by a call on it
\* that returned without an exception, and a call changes no other routine.
C25_ProcessedOnce == [][ProcessedOnceStep]_vars

\* A first call with role kernel changed the routine, a second call on it
\* with role driver returned and the routine is as the first call left it.
C25_Witness ==
    /\ Len(calls) = 2
    /\ calls[1].routine = 1 /\ calls[2].routine = 1
    /\ "role" \in DOMAIN calls[1].kwargs /\ calls[1].kwargs.role = "kernel"
    /\ ~calls[1].bailed
    /\ "role" \in DOMAIN calls[2].kwargs /\ calls[2].kwargs.role = "driver"
    /\ calls[2].bailed
    /\ ir[1] # ast[1]
    /\ ir[2] = ast[2]
    /\ self._processed = {1}

\* FindNodes(ir.Loop).visit(nodes): the loops in the order they are met
RECURSIVE LoopsOf(_)
LoopsOf(nodes) ==
    IF nodes = <<>> THEN <<>>
    ELSE LET o == Head(nodes) IN
         (IF o.k = "Loop" THEN <<o>> \o LoopsOf(o.body)
          ELSE IF o.k = "Section" THEN LoopsOf(o.body) ELSE <<>>)
         \o LoopsOf(Tail(nodes))

\* insert_annotations has run on routine 1
Inserted ==
    /\ 1 \in self._processed
    /\ self.directive = "openacc"
    /\ ~\E i \in 1..Len(ast[1].spec) :
          has_word(ast[1].spec[i], "routine") /\ has_word(ast[1].spec[i], "seq")

\* The local arrays without the horizontal and the vertical size
PrivateNames(routine) ==
    {v.name : v \in {routine.variables[i] : i \in {j \in 1..Len(routine.variables) :
        /\ routine.variables[j].k = "Array"
        /\ \A a \in 1..Len(routine.arguments) : routine.arguments[a] # routine.variables[j].name
        /\ \A d \in 1..Len(routine.variables[j].shape) :
              routine.variables[j].shape[d] \notin {horizontal.size, vertical.size}}}}

IsVectorPragma(p, names) ==
    /\ p.k = "Pragma"
    /\ p.keyword = "acc"
    /\ IF names = {}
       THEN p.content = <<"loop", "vector">>
       ELSE /\ Len(p.content) = 3 + Cardinality(names)
            /\ SubSeq(p.content, 1, 3) = <<"loop", "vector", "private">>
            /\ {p.content[i] : i \in 4..Len(p.content)} = names

SeqPragma == Pragma("acc", <<"loop", "seq">>)

MarkedNodep(loop) ==
    \E i \in 1..Len(as_tuple(loop.pragma)) :
       \E w \in 1..Len(as_tuple(loop.pragma)[i].content) :
          as_tuple(loop.pragma)[i].content[w] \in {"nodep", "NODEP"}

RoutinePragmas(spec) ==
    {i \in 1..Len(spec) : spec[i].keyword = "acc" /\ spec[i].content[1] = "routine"}

\* C26: after insert_annotations the routine has the loops it had; a loop
\* over the horizontal index carries the one pragma acc loop vector, with a
\* private clause naming exactly the local arrays that have neither the
\* horizontal nor the vertical size; any other loop marked nodep carries what
\* it carried, and any other loop the one pragma acc loop seq; the spec has
\* gained one pragma, acc routine seq when hoisting and acc routine vector
\* otherwise.
C26_LoopAnnotationPartition ==
    Inserted =>
        LET before == LoopsOf(ast[1].body)
            after == LoopsOf(ir[1].body)
        IN /\ Len(after) = Len(before)
           /\ \A n \in 1..Len(before) :
                 /\ after[n].variable = before[n].variable
                 /\ IF before[n].variable = horizontal.index
                    THEN /\ Len(as_tuple(after[n].pragma)) = 1
                         /\ IsVectorPragma(as_tuple(after[n].pragma)[1],
                                           PrivateNames(ast[1]))
                    ELSE IF MarkedNodep(before[n])
                         THEN after[n].pragma = before[n].pragma
                         ELSE after[n].pragma = Tuple(<<SeqPragma>>)
           /\ Len(ir[1].spec) = Len(ast[1].spec) + 1
           /\ SubSeq(ir[1].spec, 1, Len(ast[1].spec)) = ast[1].spec
           /\ ir[1].spec[Len(ir[1].spec)] =
                 Pragma("acc", <<"routine",
                                 IF self.hoist_column_arrays THEN "seq" ELSE "vector">>)
           /\ Cardinality(RoutinePragmas(ir[1].spec)) = 1

\* A kernel hoisting its column arrays: the loop over i that carried an omp
\* pragma is sequential, the horizontal loop in it is a vector loop with d
\* and e private.
C26_Witness ==
    /\ Inserted
    /\ self.hoist_column_arrays
    /\ Len(LoopsOf(ast[1].body)) = 2
    /\ LoopsOf(ast[1].body)[1].variable = "i"
    /\ LoopsOf(ast[1].body)[1].pragma = Tuple(<<Pragma("omp", <<"simd">>)>>)
    /\ LoopsOf(ir[1].body)[1].pragma = Tuple(<<SeqPragma>>)
    /\ LoopsOf(ast[1].body)[2].variable = "jl"
    /\ MarkedNodep(LoopsOf(ast[1].body)[2])
    /\ LoopsOf(ir[1].body)[2].pragma =
          Tuple(<<Pragma("acc", <<"loop", "vector", "private", "d", "e">>)>>)
    /\ ir[1].spec = <<Pragma("acc", <<"routine", "seq">>)>>

\* No call of transform_subroutine made so far has raised
NoCallRaised == \A i \in 1..Len(calls) : calls[i].exc = NoExc

IsGang(p) ==
    /\ p.keyword = "acc"
    /\ Len(p.content) >= 3
    /\ SubSeq(p.content, 1, 3) = <<"parallel", "loop", "gang">>

EndGang == Pragma("acc", <<"end", "parallel", "loop">>)

Gangs(loop) == {i \in 1..Len(as_tuple(loop.pragma)) : IsGang(as_tuple(loop.pragma)[i])}
EndGangs(loop) ==
    {i \in 1..Len(as_tuple(loop.pragma_post)) : as_tuple(loop.pragma_post)[i] = EndGang}

\* The loop carries one pragma, an acc data pragma
CarriesData(loop) ==
    /\ Len(as_tuple(loop.pragma)) = 1
    /\ as_tuple(loop.pragma)[1].keyword = "acc"
    /\ as_tuple(loop.pragma)[1].content[1] \in {"data", "DATA"}

\* The calls of a target directly in the loop or in a loop of it
RECURSIVE TargetCalls(_, _)
TargetCalls(nodes, names) ==
    IF nodes = <<>> THEN 0
    ELSE LET o == Head(nodes) IN
         (IF o.k = "CallStatement" THEN (IF o.name \in names THEN 1 ELSE 0)
          ELSE IF o.k = "Loop" THEN TargetCalls(o.body, names) ELSE 0)
         + TargetCalls(Tail(nodes), names)

IntOf(token) ==
    CHOOSE v \in -(2 * MaxIndex + 2 * MaxStep)..(2 * MaxIndex + 2 * MaxStep) :
        ToString(v) = token

\* The arguments of the call range(...) written in cntrl, evaluated
RangeArguments(cntrl) ==
    IF Len(cntrl) = 10
    THEN <<IntOf(cntrl[3]), IntOf(cntrl[5]) + IntOf(cntrl[7]), IntOf(cntrl[9])>>
    ELSE <<IntOf(cntrl[3]), IntOf(cntrl[5]) + IntOf(cntrl[7]), 1>>

\* list(range(a, b, c)) in Python
PyRange(a, b, c) ==
    LET n == IF c > 0 /\ a < b THEN (b - a + c - 1) \div c
             ELSE IF c < 0 /\ a > b THEN (a - b - c - 1) \div (-c)
             ELSE 0
    IN [j \in 1..n |-> a + (j - 1) * c]

\* The index values of DO var = start, stop, step: start, start + step, ...
\* for as long as the value has not passed stop
DoValues(start, stop, step) ==
    LET passed(v) == IF step > 0 THEN v > stop ELSE v < stop
        n == Cardinality({j \in 0..(2 * MaxIndex) :
                             \A i \in 0..j : ~passed(start + i * step)})
    IN [j \in 1..n |-> start + (j - 1) * step]

LoopStart == IntOf(RangeLower(ir.ch[2]).n)
LoopStop == IntOf(RangeUpper(ir.ch[2]).n)
LoopStep == IF RangeStep(ir.ch[2]) = None THEN 1 ELSE IntOf(RangeStep(ir.ch[2]).n)

\* The values the emitted for statement iterates over
EmittedValues ==
    LET arguments == RangeArguments(text[1].cntrl)
    IN PyRange(arguments[1], arguments[2], arguments[3])

\* C28: the loop emitted by the Python backend for DO var = start, stop, step
\* iterates over exactly the index values of the source loop, with one as the
\* step when none is given.
C28_LoopRangeEquivalence ==
    (pc = "python" /\ ir.k = "Loop") =>
        EmittedValues = DoValues(LoopStart, LoopStop, LoopStep)

\* DO i = 1, 4, 2 runs over 1 and 3; the loop emitted for it runs over 1, 3
\* and 5.
C28_Witness ==
    /\ pc = "python"
    /\ ir.k = "Loop"
    /\ <<LoopStart, LoopStop>> = <<1, 4>>
    /\ RangeStep(ir.ch[2]) # None
    /\ LoopStep = 2
    /\ text[1].cntrl = <<"range", "(", "1", ",", "4", "+", "2", ",", "2", ")">>
    /\ DoValues(LoopStart, LoopStop, LoopStep) = <<1, 3>>
    /\ EmittedValues = <<1, 3, 5>>

(***************************************************************************)
(* Properties of the scope of ASSOCIATE constructs.                        *)
(***************************************************************************)
\* The names the construct handed over binds
AliasNames ==
    LET stmt == ast.ch[get_child(ast, "Associate_Stmt")]
        list == stmt.ch[2]
    IN {list.ch[i].ch[1].s : i \in 1..Len(list.ch)}

\* Lowering the construct leaves the tables of the scopes there were as they
\* are, leaves what every name resolves to from the enclosing scope as it
\* is, and defines the alias names in a new scope below the enclosing one.
AssociateScopeStep ==
    (pc = "parsed" /\ pc' = "lowered") =>
        /\ \A id \in DOMAIN symbols : symbols'[id] = symbols[id]
        /\ \A name \in Names :
              lookup_in(symbols', parents', scope, name)
                 = lookup_in(symbols, parents, scope, name)
        /\ \E id \in DOMAIN symbols' \ DOMAIN symbols :
              /\ parents'[id] = scope
              /\ \A name \in AliasNames : symbols'[id][name] # Unbound

\* C29: the alias names bound by an ASSOCIATE construct are defined in a
\* scope created for the construct; lowering it neither adds entries to nor
\* overwrites entries of the table of the enclosing scope, and every name
\* looked up in the enclosing scope resolves as before.
C29_AssociateOwnScope == [][AssociateScopeStep]_vars

\* ASSOCIATE (baz => foo + 1) has been lowered in the routine scope: no scope
\* has been created, and baz, which no scope defined, is an entry of the
\* table of the routine.
C29_Witness ==
    /\ pc = "lowered"
    /\ ast.k = "Associate_Construct"
    /\ AliasNames = {"baz"}
    /\ SelectorOf(ast).k = "Level_2_Expr"
    /\ scope = RoutineScope
    /\ Len(symbols) = 2
    /\ symbols[RoutineScope]["baz"] = SymbolAttributes("DEFERRED")
    /\ symbols[ModuleScope]["baz"] = Unbound

(***************************************************************************)
(* Properties of the logical equivalence operators.                        *)
(***************************************************************************)
\* The truth values of foo and bar
Valuations == [{"foo", "bar"} -> BOOLEAN]

\* The value of a logical expression of the source under v
RECURSIVE TruthOf(_, _)
TruthOf(o, v) ==
    CASE o.k = "Name" -> v[o.s]
      [] o.s \in {".not.", ".NOT."} -> ~TruthOf(o.ch[1], v)
      [] o.s \in {".and.", ".AND.", ".And."} -> TruthOf(o.ch[1], v) /\ TruthOf(o.ch[2], v)
      [] o.s \in {".or.", ".OR."} -> TruthOf(o.ch[1], v) \/ TruthOf(o.ch[2], v)
      [] o.s \in {".eqv.", ".EQV.", ".Eqv."} -> TruthOf(o.ch[1], v) = TruthOf(o.ch[2], v)
      [] o.s \in {".neqv.", ".NEQV.", ".Neqv."} -> TruthOf(o.ch[1], v) # TruthOf(o.ch[2], v)

\* The value of a logical expression of the IR under v
RECURSIVE Evaluated(_, _)
Evaluated(e, v) ==
    CASE e.k = "Variable" -> v[e.n]
      [] e.k = "LogicalNot" -> ~Evaluated(e.ch[1], v)
      [] e.k = "LogicalAnd" -> \A i \in 1..Len(e.ch) : Evaluated(e.ch[i], v)
      [] e.k = "LogicalOr" -> \E i \in 1..Len(e.ch) : Evaluated(e.ch[i], v)

\* C30: a .eqv. b and a .neqv. b are lowered whatever the letter case of the
\* operator, to an expression that is true exactly when a and b have the
\* same truth value for .eqv., and exactly when they differ for .neqv.
C30_LogicalEquivalence ==
    pc # "parsed" =>
        /\ pc = "lowered"
        /\ \A v \in Valuations : Evaluated(ir, v) = TruthOf(ast, v)

\* (.NOT. foo) .Eqv. (foo .AND. bar) has been lowered to
\* LogicalOr(LogicalAnd(a, b), LogicalNot(LogicalOr(a, b))), which is true
\* for foo true and bar false only.
C30_Witness ==
    /\ pc = "lowered"
    /\ ast.s = ".Eqv."
    /\ ast.ch[1] = PNode("And_Operand", ".NOT.", <<Leaf("Name", "foo")>>)
    /\ ast.ch[2] = PNode("Or_Operand", ".AND.", <<Leaf("Name", "foo"), Leaf("Name", "bar")>>)
    /\ ir.k = "LogicalOr"
    /\ ir.ch[1].k = "LogicalAnd"
    /\ ir.ch[2].k = "LogicalNot"
    /\ {v \in Valuations : Evaluated(ir, v)} = {[foo |-> TRUE, bar |-> FALSE]}

====
